---- MODULE Spec2Model ----
(***************************************************************************)
(* Sync orchestration of the mail worker (src/worker/main.py) over the job *)
(* row, the stored cursor and the Message / Thread tables (src/worker/     *)
(* db.py), with the message and thread pipelines (src/worker/pipeline.py)  *)
(* and the mailbox client (src/worker/gmail_client.py) it drives.          *)
(*                                                                         *)
(* One job runs through handle_job.  Every action is one stretch of the    *)
(* code that ends at a database commit (the exit of a `with get_db()`      *)
(* block), at a return, or at a raise.  A collaborator call (provider,     *)
(* database write, pipeline stage) either returns or raises, chosen by \E. *)
(* Python None is the empty dict <<>> for dicts, "" for strings, 0 for the *)
(* cursor and <<>> for an optional argument (<<v>> when given).            *)
(***************************************************************************)
EXTENDS Integers, Sequences, FiniteSets, TLC

\* ---------------------------------------------------------------- bounds
MaxMsgs == 3
MaxHist == 2
MaxWords == 2
MaxUpserts == 4
MaxPersists == 3
MaxMarkers == 2
MaxMail == 3
MaxSyncEvents == 4

\* ------------------------------------------------------- program constants
DefaultBackfillDays == 30
FallbackBackfillDays == 7
BackfillCheckpoint == 50
IncrementalCheckpoint == 10

DefaultExcludeLabels == <<"SPAM", "TRASH">>

JobTypes == {"BACKFILL", "INCREMENTAL", "PROCESS_THREAD", "PROCESS_MESSAGE", "EXPORT"}
Terminal == {"COMPLETED", "FAILED", "CANCELLED"}

\* The conversation a mailbox message belongs to (threadId of its envelope).
ThreadOf(m) == IF m % 2 = 1 THEN "t1" ELSE "t2"

\* ---------------------------------------------------------------- helpers
\* dict.get(key, default); a dict that is None behaves as the empty dict.
Get(d, k, default) == IF k \in DOMAIN d THEN d[k] ELSE default

Range(s) == {s[i] : i \in 1..Len(s)}

\* The id lists the provider can return: up to MaxMsgs distinct ids, oldest
\* first or newest first.
CandidateLists ==
    {[i \in 1..n |-> i] : n \in 0..MaxMsgs} \cup {[i \in 1..n |-> n + 1 - i] : n \in 0..MaxMsgs}

\* ------------------------------------------------------------- db.py
\* A credential lookup that finds a row for every user.
get_user_oauth_token_any_user(row) == TRUE

\* get_user_oauth_token: whether the user's OAuthToken row was found (the
\* dict of its columns; None otherwise).
get_user_oauth_token(row) == row

\* get_user_settings: the row as a dict with snake_case keys, or None.
get_user_settings(row) ==
    IF Len(row) = 0 THEN <<>>
    ELSE [llm_provider |-> row[1].llmProvider,
          llm_api_key_enc |-> row[1].llmApiKeyEnc,
          redaction_mode |-> row[1].redactionMode,
          include_labels |-> <<>>,
          exclude_labels |-> row[1].excludeLabels,
          backfill_days |-> row[1].backfillDays]

\* The row the INSERT of upsert_message builds from its parameters; version
\* counts the writes of the row (updatedAt).
InsertedMessage(message_data, fresh) ==
    [gmailMessageId |-> message_data.gmail_message_id, id |-> fresh, version |-> 1,
     labels |-> message_data.labels, category |-> message_data.category,
     bodyTextEnc |-> message_data.body_text_enc,
     isRead |-> message_data.is_read, isStarred |-> message_data.is_starred]

\* An INSERT without the ON CONFLICT clause.
upsert_message_plain_insert(table, message_data, fresh) ==
    table \cup {InsertedMessage(message_data, fresh)}

\* upsert_message on the rows of one user: INSERT with id = gen_random_uuid();
\* ON CONFLICT ("userId", "gmailMessageId") DO UPDATE SET the listed columns
\* (of those modelled: labels and category), which leaves the id, the body,
\* isRead and isStarred of the existing row.
upsert_message(table, message_data, fresh) ==
    IF \E r \in table : r.gmailMessageId = message_data.gmail_message_id
       THEN {IF r.gmailMessageId = message_data.gmail_message_id
                THEN [r EXCEPT !.labels = message_data.labels,
                               !.category = message_data.category,
                               !.version = @ + 1]
                ELSE r : r \in table}
       ELSE table \cup {InsertedMessage(message_data, fresh)}

\* upsert_thread on the Thread row of one conversation (<<>> when absent):
\* ON CONFLICT ("userId", "gmailThreadId") DO UPDATE SET the listed columns,
\* which do not include isRead and isStarred.
upsert_thread(row, thread_data) ==
    IF Len(row) = 0
       THEN <<[category |-> thread_data.category, needsReply |-> thread_data.needs_reply,
               isRead |-> thread_data.is_read, isStarred |-> thread_data.is_starred,
               labels |-> thread_data.labels, messageCount |-> thread_data.message_count]>>
       ELSE <<[row[1] EXCEPT !.category = thread_data.category,
                             !.needsReply = thread_data.needs_reply,
                             !.labels = thread_data.labels,
                             !.messageCount = thread_data.message_count]>>

\* update_job_status that leaves the error column alone.
update_job_status_drops_error(row, status, progress, total_items, error) ==
    [status |-> status,
     progress |-> IF Len(progress) > 0 THEN progress[1] ELSE row.progress,
     totalItems |-> IF Len(total_items) > 0 THEN total_items[1] ELSE row.totalItems,
     error |-> row.error]

\* update_job_status: status is always written; progress, totalItems and
\* error only when given.  The WHERE clause has no condition on the status
\* already stored.
update_job_status(row, status, progress, total_items, error) ==
    [status |-> status,
     progress |-> IF Len(progress) > 0 THEN progress[1] ELSE row.progress,
     totalItems |-> IF Len(total_items) > 0 THEN total_items[1] ELSE row.totalItems,
     error |-> IF Len(error) > 0 THEN error[1] ELSE row.error]

\* ------------------------------------------------------------- pipeline.py
\* The outcomes a collaborator of the message pipeline can have for one id.
MessageEnvs ==
    [fetch : {"ok", "not_found", "error"},
     parse : {"ok", "error"},
     encrypt : {"ok", "raise"},
     persist : {"ok", "error"}]

fetch_message_node(st, env) ==
    IF env.fetch = "ok" THEN [st EXCEPT !.raw_message = TRUE]
    ELSE IF env.fetch = "not_found"
         THEN [st EXCEPT !.error = "Message not found", !.processed = FALSE]
         ELSE [st EXCEPT !.error = "Failed to fetch message", !.processed = FALSE]

parse_message_node(st, env) ==
    IF ~st.raw_message THEN st
    ELSE IF env.parse = "ok" THEN [st EXCEPT !.parsed_message = TRUE]
         ELSE [st EXCEPT !.error = "Failed to parse message", !.processed = FALSE]

\* persist_message_node: encrypt() is outside the try block, upsert inside.
persist_message_node(st, env) ==
    IF ~st.parsed_message THEN [st EXCEPT !.processed = FALSE]
    ELSE IF env.encrypt = "raise" THEN [st EXCEPT !.raised = TRUE]
    ELSE IF env.persist = "ok" THEN [st EXCEPT !.processed = TRUE, !.stored = TRUE]
    ELSE [st EXCEPT !.error = "Failed to persist message", !.processed = FALSE]

\* message_processing_graph.invoke: fetch -> parse -> (scan, classify,
\* extract: no effect on processed / error) -> persist.
message_processing_graph(env) ==
    LET s0 == [raw_message |-> FALSE, parsed_message |-> FALSE, processed |-> FALSE,
               error |-> "", raised |-> FALSE, stored |-> FALSE]
    IN persist_message_node(parse_message_node(fetch_message_node(s0, env), env), env)

\* ---------------------------------------------------------- llm_service.py
\* Strings are compared by occurrence ("kw in text", "nd in domain").  A text
\* is the set of phrases that occur in subject + snippet + body preview; a
\* phrase or a domain contains itself and the fragments listed here.
Fragments(p) ==
    {p} \cup
    CASE p = "invoice #" -> {"invoice"}
      [] p = "out for delivery" -> {"delivery"}
      [] p = "news.substack.com" -> {"substack.com"}
      [] OTHER -> {}

\* any(x in s for x in list), s one string.
AnyIn(list, s) == list \cap Fragments(s) # {}

\* any(keyword in combined_text for keyword in list).
AnyInText(list, text) == \E p \in text : AnyIn(list, p)

\* domain.endswith(".edu")
EndsWithEdu(domain) == domain \in {"mit.edu"}

newsletter_domains ==
    {"mailchimp.com", "substack.com", "medium.com", "ghost.org", "convertkit.com",
     "mailerlite.com", "constantcontact.com", "campaignmonitor.com", "aweber.com",
     "getresponse.com"}
newsletter_keywords == {"newsletter", "unsubscribe", "manage preferences", "email preferences"}
receipt_domains ==
    {"amazon.com", "stripe.com", "paypal.com", "square.com", "shopify.com", "etsy.com",
     "ebay.com", "apple.com", "google.com", "microsoft.com"}
receipt_keywords ==
    {"receipt", "order confirmation", "order #", "invoice #", "purchase confirmation"}
shipping_domains ==
    {"ups.com", "fedex.com", "usps.com", "dhl.com", "ontrac.com", "lasership.com", "amazon.com"}
shipping_keywords ==
    {"tracking", "shipped", "delivery", "out for delivery", "package", "parcel"}
bill_keywords == {"bill", "invoice", "payment due", "statement", "amount due", "pay now"}
social_domains ==
    {"facebook.com", "twitter.com", "linkedin.com", "instagram.com", "tiktok.com",
     "pinterest.com", "reddit.com", "discord.com"}
school_keywords == {"course", "assignment", "grade", "homework", "syllabus", "lecture"}
hiring_keywords ==
    {"job", "position", "opportunity", "interview", "recruiter", "application", "resume"}
hiring_domains == {"linkedin.com", "indeed.com", "glassdoor.com", "monster.com"}
finance_keywords == {"bank", "account", "transaction", "balance", "statement", "investment"}
finance_domains == {"chase.com", "bankofamerica.com", "wellsfargo.com", "citi.com"}

\* ClassificationResult; spam_score and confidence in hundredths.
ClassificationResult(category, priority, needs_reply, spam_score, sensitive_flags, confidence) ==
    [category |-> category, priority |-> priority, needs_reply |-> needs_reply,
     spam_score |-> spam_score, sensitive_flags |-> sensitive_flags,
     confidence |-> confidence]

\* The condition of each rule of classify_with_rules, by its category.
RuleHolds(category, domain, text) ==
    CASE category = "newsletters" ->
           \/ AnyIn(newsletter_domains, domain)
           \/ AnyInText(newsletter_keywords, text)
           \/ AnyInText({"unsubscribe"}, text)
      [] category = "receipts" ->
           AnyIn(receipt_domains, domain) /\ AnyInText(receipt_keywords, text)
      [] category = "shipping" ->
           AnyIn(shipping_domains, domain) \/ AnyInText(shipping_keywords, text)
      [] category = "bills" -> AnyInText(bill_keywords, text)
      [] category = "social" -> AnyIn(social_domains, domain)
      [] category = "school" -> EndsWithEdu(domain) \/ AnyInText(school_keywords, text)
      [] category = "hiring" ->
           AnyIn(hiring_domains, domain) \/ AnyInText(hiring_keywords, text)
      [] category = "finance" ->
           AnyIn(finance_domains, domain) \/ AnyInText(finance_keywords, text)

\* The ClassificationResult each rule returns.
RuleResult(category) ==
    CASE category = "newsletters" -> ClassificationResult("newsletters", "LOW", FALSE, 10, <<>>, 90)
      [] category = "receipts" -> ClassificationResult("receipts", "LOW", FALSE, 0, <<>>, 95)
      [] category = "shipping" -> ClassificationResult("shipping", "NORMAL", FALSE, 0, <<>>, 90)
      [] category = "bills" -> ClassificationResult("bills", "HIGH", FALSE, 0, <<>>, 85)
      [] category = "social" -> ClassificationResult("social", "LOW", FALSE, 20, <<>>, 90)
      [] category = "school" -> ClassificationResult("school", "NORMAL", TRUE, 0, <<>>, 85)
      [] category = "hiring" -> ClassificationResult("hiring", "HIGH", TRUE, 10, <<>>, 80)
      [] category = "finance" ->
           ClassificationResult("finance", "HIGH", FALSE, 0, <<"bank_account">>, 85)

\* A matcher that tests the bills rule before the shipping rule.
RuleSequenceBillsEarly ==
    <<"newsletters", "receipts", "bills", "shipping", "social", "school", "hiring", "finance">>

\* The order in which classify_with_rules tests its rules (Rule 1 .. Rule 8).
RuleSequence ==
    <<"newsletters", "receipts", "shipping", "bills", "social", "school", "hiring", "finance">>

\* classify_with_rules: each rule in turn returns when its condition holds;
\* None (<<>>) when the last one did not.  domain is "" for a from_address
\* without "@".
RECURSIVE RulesFrom(_, _, _)
RulesFrom(i, domain, text) ==
    IF i > Len(RuleSequence) THEN <<>>
    ELSE IF RuleHolds(RuleSequence[i], domain, text) THEN <<RuleResult(RuleSequence[i])>>
    ELSE RulesFrom(i + 1, domain, text)

classify_with_rules(domain, text) == RulesFrom(1, domain, text)

\* detect_sensitive_patterns: the names of the patterns found in the text.
detect_sensitive_patterns(text) ==
    IF "account 12345678" \in text THEN <<"bank_account">> ELSE <<>>

\* ------------------------------------------------- pipeline.py, stage by stage
\* What the mailbox holds for one id: the sender's domain, the phrases of
\* subject + snippet + body preview, and whether extract_body found a body
\* (body_text is None when the payload has neither text/plain nor text/html).
SenderDomains ==
    {"substack.com", "news.substack.com", "amazon.com", "linkedin.com", "mit.edu",
     "chase.com", "example.org", ""}
Phrases ==
    {"unsubscribe", "invoice #", "out for delivery", "statement", "homework",
     "interview", "account 12345678", "hello"}
Texts == {t \in SUBSET Phrases : Cardinality(t) <= MaxWords}
Mails == [domain : SenderDomains, text : Texts, body : {"none", "text"}]

\* initial_state of main.py: the settings come from the user_settings dict
\* (None gives the defaults); llm_base_url and llm_model are read from keys
\* that get_user_settings never returns, so they are None ("").
initial_state(user_settings) ==
    [llm_api_key_enc |-> Get(user_settings, "llm_api_key_enc", ""),
     llm_provider |-> Get(user_settings, "llm_provider", "gemini-2.5-flash"),
     llm_base_url |-> Get(user_settings, "llm_base_url", ""),
     redaction_mode |-> Get(user_settings, "redaction_mode", "OFF"),
     raw_message |-> FALSE, parsed_message |-> FALSE,
     classification |-> <<>>, extraction |-> <<>>, sensitive_flags |-> <<>>,
     processed |-> FALSE, error |-> "", raised |-> FALSE, stored |-> FALSE]

\* The outcomes of a model call: a result, an LLMError (429 and the like
\* after classify_llm_error), or another exception.
ModelOutcomes == {"ok", "llm_error", "error"}

\* get_llm: raises ValueError for the custom provider without base_url.
get_llm_raises(st) == st.llm_provider = "custom" /\ st.llm_base_url = ""

detect_sensitive_node(st, m) ==
    IF ~st.parsed_message THEN st
    ELSE [st EXCEPT !.sensitive_flags = detect_sensitive_patterns(m.text)]

\* A fallback classification that keeps a middling confidence.
FallbackClassificationConfident(st) ==
    ClassificationResult("misc", "NORMAL", FALSE, 0, st.sensitive_flags, 50)

\* The fallback classification of classify_message_node.
FallbackClassification(st) ==
    ClassificationResult("misc", "NORMAL", FALSE, 0, st.sensitive_flags, 0)

\* A classify stage that reports a failed model call as the run's error.
classify_failed_sets_error(st) ==
    [st EXCEPT !.classification = <<FallbackClassification(st)>>,
               !.error = "Classification failed", !.processed = FALSE]

\* The return of both except clauses of classify_message_node: the state
\* with the fallback classification, processed and error untouched.
classify_failed(st) == [st EXCEPT !.classification = <<FallbackClassification(st)>>]

\* What a model returns when it answers.
ModelClassification == ClassificationResult("hiring", "HIGH", TRUE, 5, <<"credential">>, 70)

\* rule_result and rule_result.confidence >= 0.8
RuleDecides(rule_result) == Len(rule_result) > 0 /\ rule_result[1].confidence >= 80

\* parsed.get("body_text", "")[:500]: the key is always present, so a missing
\* body gives None[:500], which raises TypeError outside any try.
BodyPreviewRaises(m) == m.body = "none"

\* A classify stage without the test for a parsed message.
ClassifyPathUnparsed(st, m) ==
    IF BodyPreviewRaises(m) THEN "raise"
    ELSE IF RuleDecides(classify_with_rules(m.domain, m.text)) THEN "rules"
    ELSE IF st.llm_api_key_enc = "" THEN "no_key"
    ELSE IF get_llm_raises(st) THEN "no_llm"
    ELSE "model"

\* The path classify_message_node takes.
ClassifyPath(st, m) ==
    IF ~st.parsed_message THEN "skip"
    ELSE IF BodyPreviewRaises(m) THEN "raise"
    ELSE IF RuleDecides(classify_with_rules(m.domain, m.text)) THEN "rules"
    ELSE IF st.llm_api_key_enc = "" THEN "no_key"
    ELSE IF get_llm_raises(st) THEN "no_llm"
    ELSE "model"

\* classify_message_node; outcome is the model call's, used on path "model".
classify_message_node(st, m, outcome) ==
    LET path == ClassifyPath(st, m)
        rule_result == classify_with_rules(m.domain, m.text)
    IN CASE path = "skip" -> st
         [] path = "raise" -> [st EXCEPT !.raised = TRUE]
         [] path = "rules" -> [st EXCEPT !.classification = rule_result]
         [] path = "no_key" ->
              IF Len(rule_result) > 0 THEN [st EXCEPT !.classification = rule_result]
              ELSE [st EXCEPT !.classification = <<FallbackClassification(st)>>]
         [] path = "no_llm" -> classify_failed(st)
         [] path = "model" ->
              IF outcome = "ok" THEN [st EXCEPT !.classification = <<ModelClassification>>]
              ELSE classify_failed(st)

\* The body text a model call of the classify stage receives.
ClassifyBody(st) ==
    IF st.redaction_mode = "REDACT_BEFORE_LLM" THEN "redacted"
    ELSE IF st.redaction_mode = "SUMMARIES_ONLY" THEN "" ELSE "text"

EmptyExtraction == [tasks |-> <<>>, deadlines |-> <<>>, entities |-> <<>>, key_facts |-> <<>>]
ModelExtraction == [tasks |-> <<"reply">>, deadlines |-> <<>>, entities |-> <<>>, key_facts |-> <<>>]

\* The path extract_entities_node takes.
ExtractPath(st) ==
    IF ~st.parsed_message \/ st.llm_api_key_enc = "" THEN "skip"
    ELSE IF st.redaction_mode = "SUMMARIES_ONLY" THEN "summaries_only"
    ELSE IF get_llm_raises(st) THEN "no_llm"
    ELSE "model"

extract_entities_node(st, outcome) ==
    LET path == ExtractPath(st)
    IN CASE path = "skip" -> st
         [] path \in {"summaries_only", "no_llm"} -> [st EXCEPT !.extraction = <<EmptyExtraction>>]
         [] path = "model" ->
              IF outcome = "ok" THEN [st EXCEPT !.extraction = <<ModelExtraction>>]
              ELSE [st EXCEPT !.extraction = <<EmptyExtraction>>]

\* The body text a model call of the extract stage receives.
ExtractBody(st, m) ==
    IF m.body = "none" THEN ""
    ELSE IF st.redaction_mode = "REDACT_BEFORE_LLM" THEN "redacted" ELSE "text"

\* The label sets a stored message can carry, of the labels that matter.
LabelSets == SUBSET {"UNREAD", "STARRED"}

\* message_data["sensitive_flags"] of persist_message_node:
\* state.get("sensitive_flags", []) + classification.get("sensitive_flags", []),
\* a list concatenation.
merged_sensitive_flags(st) ==
    st.sensitive_flags \o
        (IF Len(st.classification) = 0 THEN <<>> ELSE st.classification[1].sensitive_flags)

\* message_data of persist_message_node: the parameters of upsert_message that
\* are modelled.  body is whether the parsed message has a body_text.
message_data(key, labels, classification, body) ==
    [gmail_message_id |-> key,
     labels |-> labels,
     category |-> Get(classification, "category", "misc"),
     body_text_enc |-> body,
     is_read |-> "UNREAD" \notin labels,
     is_starred |-> "STARRED" \in labels]

\* ---------------------------------------------- pipeline.py, thread pipeline
\* The rows process_single_thread selects for a conversation, ORDER BY date
\* ASC (ids ascend with dates), each as the dict it builds: no category and
\* no classification is selected.
SelectedMessage(r) ==
    [gmail_message_id |-> r.gmailMessageId, labels |-> r.labels, body_text |-> r.bodyTextEnc]

ThreadMessages(table, t) ==
    LET members == {r \in table : ThreadOf(r.gmailMessageId) = t}
        n == Cardinality(members)
    IN IF n = 0 THEN <<>>
       ELSE LET ordered == CHOOSE q \in [1..n -> members] :
                               \A i, j \in 1..n : i < j => q[i].gmailMessageId < q[j].gmailMessageId
            IN [i \in 1..n |-> SelectedMessage(ordered[i])]

\* initial_state of process_single_thread; the settings carry no redaction
\* mode into the thread pipeline.
thread_initial_state(user_settings, thread_messages) ==
    [llm_api_key_enc |-> Get(user_settings, "llm_api_key_enc", ""),
     llm_provider |-> Get(user_settings, "llm_provider", "gemini-2.5-flash"),
     llm_base_url |-> Get(user_settings, "llm_base_url", ""),
     messages |-> thread_messages,
     summary |-> <<>>, embedding |-> FALSE,
     processed |-> FALSE, error |-> "", raised |-> FALSE]

EmptySummary == [short_summary |-> "", full_summary |-> ""]
ModelSummary == [short_summary |-> "short", full_summary |-> "full"]

\* The path summarize_thread_node takes.  m.get("body_text", ...)[:300] is
\* None[:300] for a stored message without body, a TypeError inside the try.
SummarizePath(st) ==
    IF Len(st.messages) = 0 \/ st.llm_api_key_enc = "" THEN "skip"
    ELSE IF get_llm_raises(st) THEN "no_llm"
    ELSE IF \E i \in 1..Len(st.messages) : ~st.messages[i].body_text THEN "no_body"
    ELSE "model"

summarize_thread_node(st, outcome) ==
    LET path == SummarizePath(st)
    IN CASE path = "skip" -> st
         [] path \in {"no_llm", "no_body"} -> [st EXCEPT !.summary = <<EmptySummary>>]
         [] path = "model" ->
              IF outcome = "ok" THEN [st EXCEPT !.summary = <<ModelSummary>>]
              ELSE [st EXCEPT !.summary = <<EmptySummary>>]

\* The body text summarize_thread receives for each message: the first 300
\* characters of the decrypted body, whatever the user's redaction mode.
SummarizeBody(st) == "text"

\* The path generate_embedding_node takes; generate_embedding calls a model
\* for the gemini-* and openai-* providers only.
EmbeddingPath(st) ==
    IF st.llm_api_key_enc = "" THEN "skip"
    ELSE IF Len(st.summary) = 0 THEN "no_summary"
    ELSE IF st.llm_provider = "custom" THEN "unsupported"
    ELSE "model"

generate_embedding_node(st, outcome) ==
    IF EmbeddingPath(st) = "model" /\ outcome = "ok" THEN [st EXCEPT !.embedding = TRUE]
    ELSE st

\* m.get("classification", {}).get("needs_reply", False)
member_needs_reply(m) ==
    IF "classification" \in DOMAIN m THEN Get(m.classification, "needs_reply", FALSE) ELSE FALSE

\* m.get("classification", {}).get("category", "misc")
member_category(m) ==
    IF "classification" \in DOMAIN m THEN Get(m.classification, "category", "misc") ELSE "misc"

Count(categories, c) == Cardinality({i \in 1..Len(categories) : categories[i] = c})

\* max(set(categories), key=categories.count): a category of the highest
\* count; among several, the first in the iteration order of the set, which
\* the list order does not determine.
MostCommon(categories) ==
    {c \in Range(categories) : \A d \in Range(categories) : Count(categories, d) <= Count(categories, c)}

\* thread_data of persist_thread_node, for the category max() returned.
thread_data(st, category) ==
    LET ms == st.messages
        n == Len(ms)
    IN [category |-> category,
        needs_reply |-> \E i \in 1..n : member_needs_reply(ms[i]),
        is_read |-> \A i \in 1..n : "UNREAD" \notin ms[i].labels,
        is_starred |-> \E i \in 1..n : "STARRED" \in ms[i].labels,
        labels |-> UNION {ms[i].labels : i \in 1..n},
        message_count |-> n]

\* The path persist_thread_node takes.  state.get("summary", {}) is None when
\* no node set a summary, and None.get raises outside the try.
PersistThreadPath(st) ==
    IF Len(st.messages) = 0 THEN "skip"
    ELSE IF Len(st.summary) = 0 THEN "raise"
    ELSE "upsert"

persist_thread_node(st, outcome) ==
    LET path == PersistThreadPath(st)
    IN CASE path = "skip" -> [st EXCEPT !.processed = FALSE]
         [] path = "raise" -> [st EXCEPT !.raised = TRUE]
         [] path = "upsert" ->
              IF outcome = "ok" THEN [st EXCEPT !.processed = TRUE]
              ELSE [st EXCEPT !.error = "Failed to persist thread", !.processed = FALSE]

\* ---------------------------------------------------------------- state
\* ---------------------------------------------------------- error_handling.py
\* A failure text is modelled by the set of status-code substrings and
\* keywords it contains; the markers each test of classify_llm_error looks for.
RateLimitMarkers == {"429", "rate limit", "too many requests"}
InvalidApiKeyMarkers == {"401", "unauthorized", "invalid api key", "authentication"}
QuotaMarkers == {"quota", "billing", "payment"}
NetworkMarkers == {"connection", "timeout", "network"}
OutageMarkers == {"500", "502", "503", "504"}
InvalidRequestMarkers == {"400", "bad request"}

Markers ==
    RateLimitMarkers \cup InvalidApiKeyMarkers \cup QuotaMarkers \cup NetworkMarkers
        \cup OutageMarkers \cup InvalidRequestMarkers

RateLimitDefaultWait == 60
NetworkWait == 30
OutageWait == 300
UnknownWait == 60

\* LLMError.__init__ (retry_after None is <<>>).
LLMError(error_type, provider, retryable, retry_after) ==
    [error_type |-> error_type, provider |-> provider, retryable |-> retryable,
     retry_after |-> retry_after]

\* The retry-after header of the failed response as an integer, None (0 here,
\* which `retry_after or 60` treats alike) when there is no such header.
retry_after_of(error) ==
    IF error.retry_after_header # <<>> THEN error.retry_after_header[1] ELSE 0

\* classify_llm_error: the tests in the order of the function body.
classify_llm_error(error, provider) ==
    IF error.text \cap RateLimitMarkers # {}
       THEN LLMError("rate_limit", provider, TRUE,
                     <<IF retry_after_of(error) # 0 THEN retry_after_of(error)
                       ELSE RateLimitDefaultWait>>)
    ELSE IF error.text \cap InvalidApiKeyMarkers # {}
       THEN LLMError("invalid_api_key", provider, FALSE, <<>>)
    ELSE IF error.text \cap QuotaMarkers # {}
       THEN LLMError("quota_exceeded", provider, FALSE, <<>>)
    ELSE IF error.text \cap NetworkMarkers # {}
       THEN LLMError("network_error", provider, TRUE, <<NetworkWait>>)
    ELSE IF error.text \cap OutageMarkers # {}
       THEN LLMError("provider_outage", provider, TRUE, <<OutageWait>>)
    ELSE IF error.text \cap InvalidRequestMarkers # {}
       THEN LLMError("invalid_request", provider, FALSE, <<>>)
    ELSE LLMError("unknown", provider, TRUE, <<UnknownWait>>)

\* should_retry
should_retry(error) == error.retryable

VARIABLES
    jobType,        \* payload.jobType
    metadata,       \* payload.metadata
    pc,             \* position of the job in main.py
    caller,         \* who called process_backfill_job: "handler" or "incremental"
    bfMeta,         \* the metadata argument of process_backfill_job
    tokenRow,       \* whether the user has an OAuthToken row
    cursor,         \* OAuthToken.historyId (0 = NULL)
    settingsRow,    \* the UserSettings row: <<>> or <<row>>
    provHist,       \* the provider's current change-log position
    job,            \* the SyncJob row of metadata.jobId
    messages,       \* Message table: stored gmailMessageIds of the user
    threads,        \* Thread table: stored gmailThreadIds of the user
    loc,            \* locals of the job function handle_job called
    bf,             \* locals of process_backfill_job
    outcome,        \* what handle_job returned: <<>> or <<[status, error]>>
    exc,            \* the exception in flight, as its text
    writes,         \* history: every committed write, as [by, kind, status]
    invoked,        \* history: ids passed to the message pipeline, in order
    threadRuns,     \* history: conversation ids passed to process_single_thread
    faults,         \* history: the kinds of job-level failure that occurred
    fallback,       \* history: why process_incremental_job delegated ("", "absent",
                    \* "stale") and how many writes had been committed by then
    cancelled,      \* history: an external actor has set the job CANCELLED
    node,           \* the node of message_processing_graph about to run
    state,          \* the EmailProcessingState passed from node to node
    mail,           \* what the provider holds for the message id of the run
    calls,          \* history: the model calls made, as [stage, body]
    stages,         \* history: the outcome of each collaborator call of the run,
                    \* and the sensitive_flags the committed upsert stored
    rows,           \* Message table with row identity: [gmailMessageId, id, version]
    nextRowId,      \* the next value of gen_random_uuid()
    txn,            \* per job, the open persist transaction: <<>> or <<[key, rows]>>
    committed,      \* history: the committed upserts, as [job, key, fresh]
    tnode,          \* the node of thread_processing_graph about to run
    tstate,         \* the ThreadProcessingState passed from node to node
    threadRow,      \* the Thread row of conversation "t1": <<>> or <<row>>
    classified,     \* history: per stored message id, the needs_reply of the
                    \* classification it was last persisted with
    llmErr,         \* a failed model call: [error, provider, result], result
                    \* <<>> or <<the LLMError classify_llm_error returned>>
    sync,           \* per job of one user, the locals of its sync run that
                    \* bear on the cursor: [kind, at, history_id, new_history_id]
    syncLog         \* history: the candidate ids each run obtained and the
                    \* cursor writes, as [job, op, ids, from, to]

vars == <<jobType, metadata, pc, caller, bfMeta, tokenRow, cursor, settingsRow,
          provHist, job, messages, threads, loc, bf, outcome, exc, writes,
          invoked, threadRuns, faults, fallback, cancelled, node, state, mail,
          calls, stages, rows, nextRowId, txn, committed, tnode, tstate,
          threadRow, classified, llmErr, sync, syncLog>>

JobId == "job-1"

\* The metadata a caller can send with a job of type t (None is <<>>).
Metadatas(t) ==
    {<<>>, [jobId |-> JobId]} \cup
    CASE t = "BACKFILL" ->
           {[jobId |-> JobId, backfillDays |-> 1, excludeLabels |-> <<"TRASH">>]}
      [] t = "PROCESS_THREAD" -> {[jobId |-> JobId, threadId |-> "t1"]}
      [] t = "PROCESS_MESSAGE" -> {[jobId |-> JobId, messageId |-> 1]}
      [] OTHER -> {}

\* The UserSettings row of the user: none, or one with its own exclusions.
SettingsRows ==
    {<<>>,
     <<[llmProvider |-> "gemini-2.5-flash", llmApiKeyEnc |-> "", redactionMode |-> "OFF",
        excludeLabels |-> <<"PROMOTIONS">>, backfillDays |-> 30]>>}

NoLoc ==
    [job_id |-> "", backfill_days |-> 0, exclude_labels |-> <<>>,
     user_settings |-> <<>>, message_ids |-> <<>>, new_history_id |-> 0,
     i |-> 1, processed |-> 0, failed |-> 0, skipped |-> 0,
     threads_to_process |-> {}, threads_done |-> {}, thread_errors |-> {},
     diffed |-> FALSE,
     result |-> [processed |-> FALSE, error |-> ""]]

NoMail == [domain |-> "", text |-> {}, body |-> "none"]
NoStages == [fetch |-> "", parse |-> "", classify |-> "", extract |-> "", encrypt |-> "",
             persist |-> "", sensitive_flags |-> <<>>]
\* No stage-by-stage run is open.
NoRun ==
    /\ node = "idle"
    /\ state = initial_state(<<>>)
    /\ mail = NoMail
    /\ calls = <<>>
    /\ stages = NoStages

\* The jobs of one user that run concurrently, and the ids they process.
Jobs == {"A", "B"}
Keys == {1, 2}

\* An empty Message table and no open transaction.
NoRows ==
    /\ rows = {}
    /\ nextRowId = 1
    /\ txn = [j \in Jobs |-> <<>>]
    /\ committed = <<>>

\* No model call has failed.
NoLLMError ==
    llmErr = [error |-> [text |-> {}, retry_after_header |-> <<>>],
              provider |-> "", result |-> <<>>]

\* A job that is not syncing.
NoSyncJob == [kind |-> "", at |-> "idle", history_id |-> 0, new_history_id |-> 0]

\* No sync run of the user is followed.
NoSync ==
    /\ sync = [j \in Jobs |-> NoSyncJob]
    /\ syncLog = <<>>

\* No thread pipeline run is open, and no Thread row is stored.
NoThreadRun ==
    /\ tnode = "idle"
    /\ tstate = thread_initial_state(<<>>, <<>>)
    /\ threadRow = <<>>
    /\ classified = <<>>

Init ==
    /\ NoRun
    /\ NoRows
    /\ NoThreadRun
    /\ NoSync
    /\ NoLLMError
    /\ jobType \in JobTypes
    /\ metadata \in Metadatas(jobType)
    /\ pc = "start"
    /\ caller = "handler"
    /\ bfMeta = <<>>
    /\ tokenRow \in BOOLEAN
    /\ cursor \in 0..1
    /\ settingsRow \in SettingsRows
    /\ provHist = MaxHist
    /\ job = [status |-> "PENDING", progress |-> 0, totalItems |-> 0, error |-> ""]
    /\ messages \in IF jobType = "PROCESS_THREAD" THEN {{}, {1}} ELSE {{}}
    /\ threads = {}
    /\ loc = NoLoc
    /\ bf = NoLoc
    /\ outcome = <<>>
    /\ exc = ""
    /\ writes = <<>>
    /\ invoked = <<>>
    /\ threadRuns = <<>>
    /\ faults = {}
    /\ fallback = [why |-> "", at |-> 0]
    /\ cancelled = FALSE

\* ------------------------------------------------------ writes and raises
W(by, kind, status) == [by |-> by, kind |-> kind, status |-> status]

\* The job row after update_job_status, and the history entry of that write.
SetJob(by, status, progress, total_items, error) ==
    /\ job' = update_job_status(job, status, progress, total_items, error)
    /\ writes' = Append(writes, W(by, "status", status))

\* An exception leaves the job function and reaches handle_job's except.
Raise(text, kind) ==
    /\ pc' = "handler"
    /\ exc' = text
    /\ faults' = faults \cup {kind}

\* ------------------------------------------------------------ handle_job
\* handle_job, try body: dispatch on payload.jobType.
Dispatch ==
    /\ pc = "start"
    /\ \/ /\ jobType = "BACKFILL"
          /\ pc' = "bf_begin"
          /\ bfMeta' = metadata
          /\ UNCHANGED <<exc, faults>>
       \/ /\ jobType = "INCREMENTAL"
          /\ pc' = "inc_begin"
          /\ UNCHANGED <<bfMeta, exc, faults>>
       \/ /\ jobType = "PROCESS_THREAD"
          /\ pc' = "pt_begin"
          /\ UNCHANGED <<bfMeta, exc, faults>>
       \/ /\ jobType = "PROCESS_MESSAGE"
          /\ pc' = "pm_begin"
          /\ UNCHANGED <<bfMeta, exc, faults>>
       \/ /\ jobType \notin {"BACKFILL", "INCREMENTAL", "PROCESS_THREAD", "PROCESS_MESSAGE"}
          /\ Raise("Unknown job type", "job_type")
          /\ UNCHANGED bfMeta
    /\ UNCHANGED <<jobType, metadata, caller, tokenRow, cursor, settingsRow, provHist,
                   job, messages, threads, loc, bf, outcome, writes, invoked,
                   threadRuns, fallback, cancelled, node, state, mail, calls, stages,
                   rows, nextRowId, txn, committed, tnode, tstate, threadRow,
                   classified, llmErr, sync, syncLog>>

\* handle_job, after the job function returned: the completed response.
ReturnCompleted ==
    /\ pc = "return"
    /\ pc' = "done"
    /\ outcome' = <<[status |-> "completed", error |-> ""]>>
    /\ UNCHANGED <<jobType, metadata, caller, bfMeta, tokenRow, cursor, settingsRow,
                   provHist, job, messages, threads, loc, bf, exc, writes, invoked,
                   threadRuns, faults, fallback, cancelled, node, state, mail, calls,
                   stages, rows, nextRowId, txn, committed, tnode, tstate, threadRow,
                   classified, llmErr, sync, syncLog>>

\* An except clause that finds no job row to mark.
failed_job_id_none(payload_metadata) == ""

\* job_id = payload.metadata.get("jobId") if payload.metadata else None
failed_job_id(payload_metadata) == Get(payload_metadata, "jobId", "")

\* handle_job, except Exception: FAILED with the error text when the payload
\* carries a jobId (a failure of that write is logged and swallowed), then
\* the failed response.
HandleException ==
    /\ pc = "handler"
    /\ pc' = "done"
    /\ outcome' = <<[status |-> "failed", error |-> exc]>>
    /\ IF failed_job_id(metadata) # ""
          THEN \/ /\ SetJob("handler", "FAILED", <<>>, <<>>, <<exc>>)
                  /\ UNCHANGED faults
               \/ /\ faults' = faults \cup {"handler_db"}
                  /\ UNCHANGED <<job, writes>>
          ELSE UNCHANGED <<job, writes, faults>>
    /\ UNCHANGED <<jobType, metadata, caller, bfMeta, tokenRow, cursor, settingsRow,
                   provHist, messages, threads, loc, bf, exc, invoked, threadRuns,
                   fallback, cancelled, node, state, mail, calls, stages, rows,
                   nextRowId, txn, committed, tnode, tstate, threadRow, classified,
                   llmErr, sync, syncLog>>

\* ------------------------------------------------- process_single_thread
\* What one run over a conversation can do: the pipeline persists the
\* Thread row, its persist stage fails (swallowed, processed=false), or the
\* run raises (the row load, decrypt, or a pipeline stage outside a try).
ThreadOutcomes == {"ok", "persist_error", "raise"}

MembersOf(t) == {m \in messages : ThreadOf(m) = t}

\* process_single_thread(t) that returned: no member rows means no pipeline
\* run; otherwise the Thread row is upserted when persist succeeds.
ThreadReturns(t, o) ==
    /\ threadRuns' = Append(threadRuns, t)
    /\ IF MembersOf(t) # {} /\ o = "ok"
          THEN /\ threads' = threads \cup {t}
               /\ writes' = Append(writes, W("pipeline", "thread", ""))
          ELSE UNCHANGED <<threads, writes>>

\* The final state of thread_processing_graph.invoke for conversation t, which
\* process_single_thread discards: no run (the initial processed=False) when
\* the conversation has no Message row, processed=True when persist_thread_node
\* committed, processed=False with an error when its upsert raised.
thread_processing_result(t, o) ==
    IF MembersOf(t) = {} THEN [processed |-> FALSE, error |-> ""]
    ELSE IF o = "ok" THEN [processed |-> TRUE, error |-> ""]
    ELSE [processed |-> FALSE, error |-> "Failed to persist thread"]

\* Thread loops without a try/except.
ThreadLoopCatchesNever(fn) == FALSE

\* Whether the thread loop of a job function wraps process_single_thread in
\* try/except: the incremental loop does, the backfill loop does not.
ThreadLoopCatches(fn) == fn = "incremental"

\* ---------------------------------------------------- process_backfill_job
\* Entry: locals from metadata, credential check, first RUNNING write.
BfBegin ==
    /\ pc = "bf_begin"
    /\ LET job_id == Get(bfMeta, "jobId", "")
       IN /\ bf' = [NoLoc EXCEPT
                       !.job_id = job_id,
                       !.backfill_days = Get(bfMeta, "backfillDays", DefaultBackfillDays),
                       !.exclude_labels = Get(bfMeta, "excludeLabels", DefaultExcludeLabels),
                       !.user_settings = get_user_settings(settingsRow)]
          /\ \/ /\ ~get_user_oauth_token(tokenRow)
                /\ Raise("No OAuth token found for user", "credentials")
                /\ UNCHANGED <<job, writes>>
             \/ /\ get_user_oauth_token(tokenRow)
                /\ pc' = "bf_list"
                /\ IF job_id # ""
                      THEN SetJob("backfill", "RUNNING", <<>>, <<>>, <<>>)
                      ELSE UNCHANGED <<job, writes>>
                /\ UNCHANGED <<exc, faults>>
             \/ /\ get_user_oauth_token(tokenRow)
                /\ Raise("database error", "db")
                /\ UNCHANGED <<job, writes>>
    /\ UNCHANGED <<jobType, metadata, caller, bfMeta, tokenRow, cursor, settingsRow,
                   provHist, messages, threads, loc, outcome, invoked, threadRuns,
                   fallback, cancelled, node, state, mail, calls, stages, rows,
                   nextRowId, txn, committed, tnode, tstate, threadRow, classified,
                   llmErr, sync, syncLog>>

\* Listing of the candidate ids and the totalItems write.
BfList ==
    /\ pc = "bf_list"
    /\ \/ /\ Raise("Failed to list messages", "provider")
          /\ UNCHANGED <<bf, job, writes>>
       \/ \E ids \in CandidateLists :
            /\ bf' = [bf EXCEPT !.message_ids = ids]
            /\ \/ /\ pc' = "bf_loop"
                  /\ IF bf.job_id # ""
                        THEN SetJob("backfill", "RUNNING", <<>>, <<Len(ids)>>, <<>>)
                        ELSE UNCHANGED <<job, writes>>
                  /\ UNCHANGED <<exc, faults>>
               \/ /\ bf.job_id # ""
                  /\ Raise("database error", "db")
                  /\ UNCHANGED <<job, writes>>
    /\ UNCHANGED <<jobType, metadata, caller, bfMeta, tokenRow, cursor, settingsRow,
                   provHist, messages, threads, loc, outcome, invoked, threadRuns,
                   fallback, cancelled, node, state, mail, calls, stages, rows,
                   nextRowId, txn, committed, tnode, tstate, threadRow, classified,
                   llmErr, sync, syncLog>>

\* A loop that collects the conversation of every message it attempted.
track_thread_of_attempted(threads_to_process, processed, gmail_thread_id) ==
    threads_to_process \cup {gmail_thread_id}

\* if result.get("processed"): threads_to_process.add(gmail_thread_id)
track_thread(threads_to_process, processed, gmail_thread_id) ==
    IF processed THEN threads_to_process \cup {gmail_thread_id} ELSE threads_to_process

\* A message loop that also ends once the job row reads CANCELLED.
LoopDoneOrCancelled(row, i, ids) == i > Len(ids) \/ row.status = "CANCELLED"

\* `for message_id in message_ids`: the message loop ends when every listed
\* id has been visited; the job row is in the database but the loop does not
\* read it.
LoopDone(row, i, ids) == i > Len(ids)

\* One iteration of the message loop: the pipeline, the progress checkpoint,
\* the failure log, and the except clause around them.  dbTry names the
\* database write of the try body that raises, dbExc whether the log write
\* of the except clause raises.
BfMessage ==
    /\ pc = "bf_loop"
    /\ ~LoopDone(job, bf.i, bf.message_ids)
    /\ \E e \in MessageEnvs, dbTry \in {"none", "checkpoint", "log"}, dbExc \in BOOLEAN :
         LET m == bf.message_ids[bf.i]
             r == message_processing_graph(e)
             ok == ~r.raised /\ r.processed
             processed == IF ok THEN bf.processed + 1 ELSE bf.processed
             checkpoint == ~r.raised /\ processed % BackfillCheckpoint = 0 /\ bf.job_id # ""
             failLog == ~r.raised /\ ~r.processed /\ bf.job_id # ""
             caught == r.raised \/ dbTry # "none"
             stored == IF r.stored THEN <<W("pipeline", "message", "")>> ELSE <<>>
         IN /\ dbTry = "checkpoint" => checkpoint
            /\ dbTry = "log" => failLog
            /\ dbExc => caught /\ bf.job_id # ""
            /\ invoked' = Append(invoked, m)
            /\ messages' = IF r.stored THEN messages \cup {m} ELSE messages
            /\ bf' = [bf EXCEPT
                         !.i = @ + 1,
                         !.processed = processed,
                         !.threads_to_process = track_thread(@, ok, ThreadOf(m))]
            /\ IF checkpoint /\ dbTry # "checkpoint"
                  THEN /\ job' = update_job_status(job, "RUNNING", <<processed>>, <<>>, <<>>)
                       /\ writes' = writes \o stored \o <<W("backfill", "status", "RUNNING")>>
                  ELSE /\ writes' = writes \o stored
                       /\ UNCHANGED job
            /\ IF dbExc
                  THEN Raise("database error", "db")
                  ELSE UNCHANGED <<pc, exc, faults>>
    /\ UNCHANGED <<jobType, metadata, caller, bfMeta, tokenRow, cursor, settingsRow,
                   provHist, threads, loc, outcome, threadRuns, fallback, cancelled,
                   node, state, mail, calls, stages, rows, nextRowId, txn, committed,
                   tnode, tstate, threadRow, classified, llmErr, sync, syncLog>>

\* One iteration of the thread loop over threads_to_process.
BfThread ==
    /\ pc = "bf_loop"
    /\ LoopDone(job, bf.i, bf.message_ids)
    /\ \E t \in bf.threads_to_process \ bf.threads_done, o \in ThreadOutcomes :
         /\ bf' = [bf EXCEPT !.threads_done = @ \cup {t}]
         /\ IF o = "raise"
               THEN /\ threadRuns' = Append(threadRuns, t)
                    /\ UNCHANGED <<threads, writes>>
                    /\ IF ThreadLoopCatches("backfill")
                          THEN UNCHANGED <<pc, exc, faults>>
                          ELSE Raise("thread processing error", "thread")
               ELSE /\ ThreadReturns(t, o)
                    /\ UNCHANGED <<pc, exc, faults>>
    /\ UNCHANGED <<jobType, metadata, caller, bfMeta, tokenRow, cursor, settingsRow,
                   provHist, job, messages, loc, outcome, invoked, fallback, cancelled,
                   node, state, mail, calls, stages, rows, nextRowId, txn, committed,
                   tnode, tstate, threadRow, classified, llmErr, sync, syncLog>>

\* A COMPLETED write that reports the processed count as progress.
BackfillCompletedProcessed(row, total_messages, processed) ==
    update_job_status(row, "COMPLETED", <<processed>>, <<total_messages>>, <<>>)

\* The COMPLETED write of the backfill: progress = totalItems = the number of
\* listed ids, whatever the processed count.
BackfillCompleted(row, total_messages, processed) ==
    update_job_status(row, "COMPLETED", <<total_messages>>, <<total_messages>>, <<>>)

\* After the thread pass: the provider's current cursor is stored and the job
\* marked COMPLETED with progress = totalItems, in one transaction.
BfFinal ==
    /\ pc = "bf_loop"
    /\ LoopDone(job, bf.i, bf.message_ids)
    /\ bf.threads_to_process \subseteq bf.threads_done
    /\ \/ /\ Raise("provider error", "provider")
          /\ UNCHANGED <<cursor, job, writes>>
       \/ /\ Raise("database error", "db")
          /\ UNCHANGED <<cursor, job, writes>>
       \/ /\ pc' = "bf_return"
          /\ cursor' = provHist
          /\ IF bf.job_id # ""
                THEN /\ job' = BackfillCompleted(job, Len(bf.message_ids), bf.processed)
                     /\ writes' = writes \o <<W("backfill", "cursor", ""),
                                              W("backfill", "status", "COMPLETED")>>
                ELSE /\ writes' = Append(writes, W("backfill", "cursor", ""))
                     /\ UNCHANGED job
          /\ UNCHANGED <<exc, faults>>
    /\ UNCHANGED <<jobType, metadata, caller, bfMeta, tokenRow, settingsRow, provHist,
                   messages, threads, loc, bf, outcome, invoked, threadRuns, fallback,
                   cancelled, node, state, mail, calls, stages, rows, nextRowId, txn,
                   committed, tnode, tstate, threadRow, classified, llmErr, sync,
                   syncLog>>

\* A delegation without the `return`: control falls through to the RUNNING
\* write of process_incremental_job.
AfterDelegationFallsThrough == "inc_running"

\* Where control goes when the delegated backfill returns into
\* process_incremental_job: the `return` right after the call.
AfterDelegation == "return"

\* process_backfill_job returns to its caller.
BfReturn ==
    /\ pc = "bf_return"
    /\ pc' = IF caller = "incremental" THEN AfterDelegation ELSE "return"
    /\ UNCHANGED <<jobType, metadata, caller, bfMeta, tokenRow, cursor, settingsRow,
                   provHist, job, messages, threads, loc, bf, outcome, exc, writes,
                   invoked, threadRuns, faults, fallback, cancelled, node, state, mail,
                   calls, stages, rows, nextRowId, txn, committed, tnode, tstate,
                   threadRow, classified, llmErr, sync, syncLog>>

\* An actor outside the worker sets the job CANCELLED while it runs.
ExternalCancel ==
    /\ pc \notin {"start", "done"}
    /\ Get(metadata, "jobId", "") # ""
    /\ job.status \in {"PENDING", "RUNNING"}
    /\ ~cancelled
    /\ cancelled' = TRUE
    /\ job' = [job EXCEPT !.status = "CANCELLED"]
    /\ writes' = Append(writes, W("external", "status", "CANCELLED"))
    /\ UNCHANGED <<jobType, metadata, pc, caller, bfMeta, tokenRow, cursor, settingsRow,
                   provHist, messages, threads, loc, bf, outcome, exc, invoked,
                   threadRuns, faults, fallback, node, state, mail, calls, stages, rows,
                   nextRowId, txn, committed, tnode, tstate, threadRow, classified,
                   llmErr, sync, syncLog>>

\* ------------------------------------------------ process_incremental_job
\* A fallback that passes no window, so the backfill uses its default.
FallbackMetadataNoWindow(job_id, user_settings) ==
    [jobId |-> job_id,
     excludeLabels |-> Get(user_settings, "excludeLabels", DefaultExcludeLabels)]

\* The metadata the incremental job hands to process_backfill_job when it
\* falls back: a 7-day window and user_settings.get("excludeLabels", default).
FallbackMetadata(job_id, user_settings) ==
    [jobId |-> job_id,
     backfillDays |-> FallbackBackfillDays,
     excludeLabels |-> Get(user_settings, "excludeLabels", DefaultExcludeLabels)]

\* Entry: credential check and the stored cursor; no cursor delegates to the
\* backfill.
IncBegin ==
    /\ pc = "inc_begin"
    /\ LET job_id == Get(metadata, "jobId", "")
           user_settings == get_user_settings(settingsRow)
       IN /\ loc' = [NoLoc EXCEPT !.job_id = job_id, !.user_settings = user_settings]
          /\ \/ /\ ~get_user_oauth_token(tokenRow)
                /\ Raise("No OAuth token found for user", "credentials")
                /\ UNCHANGED <<caller, bfMeta, fallback>>
             \/ /\ get_user_oauth_token(tokenRow)
                /\ cursor = 0
                /\ pc' = "bf_begin"
                /\ caller' = "incremental"
                /\ fallback' = [why |-> "absent", at |-> Len(writes)]
                /\ bfMeta' = FallbackMetadata(job_id, user_settings)
                /\ UNCHANGED <<exc, faults>>
             \/ /\ get_user_oauth_token(tokenRow)
                /\ cursor # 0
                /\ pc' = "inc_running"
                /\ UNCHANGED <<caller, bfMeta, fallback, exc, faults>>
    /\ UNCHANGED <<jobType, metadata, tokenRow, cursor, settingsRow, provHist, job,
                   messages, threads, bf, outcome, writes, invoked, threadRuns,
                   cancelled, node, state, mail, calls, stages, rows, nextRowId, txn,
                   committed, tnode, tstate, threadRow, classified, llmErr, sync,
                   syncLog>>

\* The RUNNING write that ends the first database block.
IncRunning ==
    /\ pc = "inc_running"
    /\ \/ /\ pc' = "inc_diff"
          /\ IF loc.job_id # ""
                THEN SetJob("incremental", "RUNNING", <<>>, <<>>, <<>>)
                ELSE UNCHANGED <<job, writes>>
          /\ UNCHANGED <<exc, faults>>
       \/ /\ Raise("database error", "db")
          /\ UNCHANGED <<job, writes>>
    /\ UNCHANGED <<jobType, metadata, caller, bfMeta, tokenRow, cursor, settingsRow,
                   provHist, messages, threads, loc, bf, outcome, invoked, threadRuns,
                   fallback, cancelled, node, state, mail, calls, stages, rows,
                   nextRowId, txn, committed, tnode, tstate, threadRow, classified,
                   llmErr, sync, syncLog>>

\* What fetch_history_changes can return: the stale-cursor signal (a 404 from
\* the provider), or the deduplicated ids with the provider's new cursor.
HistoryResponses ==
    {[message_ids |-> <<>>, new_history_id |-> 0]} \cup
    {[message_ids |-> ids, new_history_id |-> provHist] : ids \in CandidateLists}

\* A staleness test with `or` in place of `and`.
IsStaleEither(message_ids, new_history_id) == new_history_id = 0 \/ message_ids = <<>>

\* new_history_id is None and not message_ids
IsStale(message_ids, new_history_id) == new_history_id = 0 /\ message_ids = <<>>

\* fetch_history_changes and the three branches on its result: stale cursor,
\* no changes, changes.
IncDiff ==
    /\ pc = "inc_diff"
    /\ \/ /\ Raise("Failed to fetch history", "provider")
          /\ UNCHANGED <<caller, bfMeta, fallback, cursor, job, writes, loc>>
       \/ \E resp \in HistoryResponses :
            LET ids == resp.message_ids
                new == resp.new_history_id
            IN /\ loc' = [loc EXCEPT !.message_ids = ids, !.new_history_id = new,
                                      !.diffed = TRUE]
               /\ IF IsStale(ids, new)
                     THEN /\ pc' = "bf_begin"
                          /\ caller' = "incremental"
                          /\ fallback' = [why |-> "stale", at |-> Len(writes)]
                          /\ bfMeta' = FallbackMetadata(loc.job_id, loc.user_settings)
                          /\ UNCHANGED <<exc, faults, cursor, job, writes>>
                  ELSE IF ids = <<>>
                     THEN /\ UNCHANGED <<caller, bfMeta, fallback>>
                          /\ IF new = 0
                                THEN /\ pc' = "return"
                                     /\ UNCHANGED <<exc, faults, cursor, job, writes>>
                                ELSE \/ /\ pc' = "return"
                                        /\ cursor' = new
                                        /\ IF loc.job_id # ""
                                              THEN /\ job' = update_job_status(job, "COMPLETED",
                                                                <<0>>, <<0>>, <<>>)
                                                   /\ writes' = writes \o
                                                        <<W("incremental", "cursor", ""),
                                                          W("incremental", "status", "COMPLETED")>>
                                              ELSE /\ writes' = Append(writes,
                                                                   W("incremental", "cursor", ""))
                                                   /\ UNCHANGED job
                                        /\ UNCHANGED <<exc, faults>>
                                     \/ /\ Raise("database error", "db")
                                        /\ UNCHANGED <<cursor, job, writes>>
                  ELSE /\ UNCHANGED <<caller, bfMeta, fallback, cursor>>
                       /\ \/ /\ pc' = "inc_loop"
                             /\ IF loc.job_id # ""
                                   THEN SetJob("incremental", "RUNNING", <<>>, <<Len(ids)>>, <<>>)
                                   ELSE UNCHANGED <<job, writes>>
                             /\ UNCHANGED <<exc, faults>>
                          \/ /\ loc.job_id # ""
                             /\ Raise("database error", "db")
                             /\ UNCHANGED <<job, writes>>
    /\ UNCHANGED <<jobType, metadata, tokenRow, settingsRow, provHist, messages,
                   threads, bf, outcome, invoked, threadRuns, cancelled, node, state,
                   mail, calls, stages, rows, nextRowId, txn, committed, tnode, tstate,
                   threadRow, classified, llmErr, sync, syncLog>>

\* A final total that counts the failures only.
FinalTotalFailedOnly(processed, failed) == failed

\* A final total that counts every attempted message.
FinalTotalAttempted(processed, failed) == processed + failed

\* final_total = processed if processed > 0 else (processed + failed)
FinalTotal(processed, failed) == IF processed > 0 THEN processed ELSE processed + failed

\* How the incremental loop counts the result of one pipeline run: processed,
\* failed when the result carries an error, skipped otherwise.
item_outcome(result) ==
    IF result.processed THEN "processed"
    ELSE IF result.error # "" THEN "failed"
    ELSE "skipped"

\* One iteration of the message loop: the pipeline, the counters, the
\* progress checkpoint; the except clause counts one more failure.
IncMessage ==
    /\ pc = "inc_loop"
    /\ ~LoopDone(job, loc.i, loc.message_ids)
    /\ \E e \in MessageEnvs, dbTry \in BOOLEAN :
         LET m == loc.message_ids[loc.i]
             r == message_processing_graph(e)
             ok == ~r.raised /\ r.processed
             processed == IF ok THEN loc.processed + 1 ELSE loc.processed
             failed0 == IF ~r.raised /\ item_outcome(r) = "failed"
                           THEN loc.failed + 1 ELSE loc.failed
             skipped == IF ~r.raised /\ item_outcome(r) = "skipped"
                           THEN loc.skipped + 1 ELSE loc.skipped
             checkpoint == ~r.raised /\ processed % IncrementalCheckpoint = 0 /\ loc.job_id # ""
             failed == IF r.raised \/ dbTry THEN failed0 + 1 ELSE failed0
             current_total == processed + failed0
             stored == IF r.stored THEN <<W("pipeline", "message", "")>> ELSE <<>>
         IN /\ dbTry => checkpoint
            /\ invoked' = Append(invoked, m)
            /\ messages' = IF r.stored THEN messages \cup {m} ELSE messages
            /\ loc' = [loc EXCEPT
                         !.i = @ + 1,
                         !.processed = processed,
                         !.failed = failed,
                         !.skipped = skipped,
                         !.threads_to_process = track_thread(@, ok, ThreadOf(m))]
            /\ IF checkpoint /\ ~dbTry
                  THEN /\ job' = update_job_status(job, "RUNNING", <<processed>>,
                                   <<IF current_total > 0 THEN current_total ELSE processed>>,
                                   <<>>)
                       /\ writes' = writes \o stored \o <<W("incremental", "status", "RUNNING")>>
                  ELSE /\ writes' = writes \o stored
                       /\ UNCHANGED job
    /\ UNCHANGED <<jobType, metadata, pc, caller, bfMeta, tokenRow, cursor, settingsRow,
                   provHist, threads, bf, outcome, exc, threadRuns, faults, fallback,
                   cancelled, node, state, mail, calls, stages, rows, nextRowId, txn,
                   committed, tnode, tstate, threadRow, classified, llmErr, sync,
                   syncLog>>

\* After the message loop: progress and the final total, before the threads.
IncFinalProgress ==
    /\ pc = "inc_loop"
    /\ LoopDone(job, loc.i, loc.message_ids)
    /\ \/ /\ pc' = "inc_threads"
          /\ IF loc.job_id # ""
                THEN SetJob("incremental", "RUNNING", <<loc.processed>>,
                            <<FinalTotal(loc.processed, loc.failed)>>, <<>>)
                ELSE UNCHANGED <<job, writes>>
          /\ UNCHANGED <<exc, faults>>
       \/ /\ loc.job_id # ""
          /\ Raise("database error", "db")
          /\ UNCHANGED <<job, writes>>
    /\ UNCHANGED <<jobType, metadata, caller, bfMeta, tokenRow, cursor, settingsRow,
                   provHist, messages, threads, loc, bf, outcome, invoked, threadRuns,
                   fallback, cancelled, node, state, mail, calls, stages, rows,
                   nextRowId, txn, committed, tnode, tstate, threadRow, classified,
                   llmErr, sync, syncLog>>

\* One iteration of the thread loop: a raise is caught, logged and skipped.
IncThread ==
    /\ pc = "inc_threads"
    /\ \E t \in loc.threads_to_process \ loc.threads_done, o \in ThreadOutcomes :
         /\ loc' = [loc EXCEPT !.threads_done = @ \cup {t},
                                !.thread_errors = IF o = "raise" THEN @ \cup {t} ELSE @]
         /\ IF o = "raise"
               THEN /\ threadRuns' = Append(threadRuns, t)
                    /\ UNCHANGED <<threads, writes>>
                    /\ IF ThreadLoopCatches("incremental")
                          THEN UNCHANGED <<pc, exc, faults>>
                          ELSE Raise("thread processing error", "thread")
               ELSE /\ ThreadReturns(t, o)
                    /\ UNCHANGED <<pc, exc, faults>>
    /\ UNCHANGED <<jobType, metadata, caller, bfMeta, tokenRow, cursor, settingsRow,
                   provHist, job, messages, bf, outcome, invoked, fallback, cancelled,
                   node, state, mail, calls, stages, rows, nextRowId, txn, committed,
                   tnode, tstate, threadRow, classified, llmErr, sync, syncLog>>

\* The cursor and the COMPLETED write, in one transaction; when it fails the
\* except clause tries the COMPLETED write alone, and logs when that fails.
IncComplete ==
    /\ pc = "inc_threads"
    /\ loc.threads_to_process \subseteq loc.threads_done
    /\ pc' = "inc_log"
    /\ LET total == FinalTotal(loc.processed, loc.failed)
           done == update_job_status(job, "COMPLETED", <<loc.processed>>, <<total>>, <<>>)
       IN \/ /\ cursor' = IF loc.new_history_id # 0 THEN loc.new_history_id ELSE cursor
             /\ job' = IF loc.job_id # "" THEN done ELSE job
             /\ writes' = writes
                   \o (IF loc.new_history_id # 0
                          THEN <<W("incremental", "cursor", "")>> ELSE <<>>)
                   \o (IF loc.job_id # ""
                          THEN <<W("incremental", "status", "COMPLETED")>> ELSE <<>>)
             /\ UNCHANGED faults
          \/ /\ loc.job_id # ""
             /\ job' = done
             /\ writes' = Append(writes, W("incremental", "status", "COMPLETED"))
             /\ faults' = faults \cup {"complete_db"}
             /\ UNCHANGED cursor
          \/ /\ faults' = faults \cup {"complete_db"}
             /\ UNCHANGED <<cursor, job, writes>>
    /\ UNCHANGED <<jobType, metadata, caller, bfMeta, tokenRow, settingsRow, provHist,
                   messages, threads, loc, bf, outcome, exc, invoked, threadRuns,
                   fallback, cancelled, node, state, mail, calls, stages, rows,
                   nextRowId, txn, committed, tnode, tstate, threadRow, classified,
                   llmErr, sync, syncLog>>

\* The closing log entry, outside any try.
IncLog ==
    /\ pc = "inc_log"
    /\ \/ /\ pc' = "return"
          /\ UNCHANGED <<exc, faults>>
       \/ Raise("database error", "db")
    /\ UNCHANGED <<jobType, metadata, caller, bfMeta, tokenRow, cursor, settingsRow,
                   provHist, job, messages, threads, loc, bf, outcome, writes, invoked,
                   threadRuns, fallback, cancelled, node, state, mail, calls, stages,
                   rows, nextRowId, txn, committed, tnode, tstate, threadRow,
                   classified, llmErr, sync, syncLog>>

\* ------------------------------------------------------ process_thread_job
PtBegin ==
    /\ pc = "pt_begin"
    /\ loc' = [NoLoc EXCEPT !.job_id = Get(metadata, "jobId", ""),
                            !.user_settings = get_user_settings(settingsRow)]
    /\ \/ /\ "threadId" \notin DOMAIN metadata
          /\ Raise("threadId required in metadata", "metadata")
          /\ UNCHANGED <<job, writes>>
       \/ /\ "threadId" \in DOMAIN metadata
          /\ ~get_user_oauth_token(tokenRow)
          /\ Raise("No OAuth token found for user", "credentials")
          /\ UNCHANGED <<job, writes>>
       \/ /\ "threadId" \in DOMAIN metadata
          /\ get_user_oauth_token(tokenRow)
          /\ \/ /\ pc' = "pt_run"
                /\ IF Get(metadata, "jobId", "") # ""
                      THEN SetJob("thread_job", "RUNNING", <<>>, <<>>, <<>>)
                      ELSE UNCHANGED <<job, writes>>
                /\ UNCHANGED <<exc, faults>>
             \/ /\ Raise("database error", "db")
                /\ UNCHANGED <<job, writes>>
    /\ UNCHANGED <<jobType, metadata, caller, bfMeta, tokenRow, cursor, settingsRow,
                   provHist, messages, threads, bf, outcome, invoked, threadRuns,
                   fallback, cancelled, node, state, mail, calls, stages, rows,
                   nextRowId, txn, committed, tnode, tstate, threadRow, classified,
                   llmErr, sync, syncLog>>

PtRun ==
    /\ pc = "pt_run"
    /\ \E o \in ThreadOutcomes :
         IF o = "raise"
            THEN /\ Raise("thread processing error", "thread")
                 /\ threadRuns' = Append(threadRuns, metadata.threadId)
                 /\ UNCHANGED <<threads, writes, loc>>
            ELSE /\ ThreadReturns(metadata.threadId, o)
                 /\ pc' = "pt_complete"
                 /\ loc' = [loc EXCEPT !.result = thread_processing_result(metadata.threadId, o)]
                 /\ UNCHANGED <<exc, faults>>
    /\ UNCHANGED <<jobType, metadata, caller, bfMeta, tokenRow, cursor, settingsRow,
                   provHist, job, messages, bf, outcome, invoked, fallback, cancelled,
                   node, state, mail, calls, stages, rows, nextRowId, txn, committed,
                   tnode, tstate, threadRow, classified, llmErr, sync, syncLog>>

PtComplete ==
    /\ pc = "pt_complete"
    /\ \/ /\ pc' = "return"
          /\ IF loc.job_id # ""
                THEN SetJob("thread_job", "COMPLETED", <<>>, <<>>, <<>>)
                ELSE UNCHANGED <<job, writes>>
          /\ UNCHANGED <<exc, faults>>
       \/ /\ loc.job_id # ""
          /\ Raise("database error", "db")
          /\ UNCHANGED <<job, writes>>
    /\ UNCHANGED <<jobType, metadata, caller, bfMeta, tokenRow, cursor, settingsRow,
                   provHist, messages, threads, loc, bf, outcome, invoked, threadRuns,
                   fallback, cancelled, node, state, mail, calls, stages, rows,
                   nextRowId, txn, committed, tnode, tstate, threadRow, classified,
                   llmErr, sync, syncLog>>

\* ----------------------------------------------------- process_message_job
PmBegin ==
    /\ pc = "pm_begin"
    /\ loc' = [NoLoc EXCEPT !.job_id = Get(metadata, "jobId", ""),
                            !.user_settings = get_user_settings(settingsRow)]
    /\ \/ /\ "messageId" \notin DOMAIN metadata
          /\ Raise("messageId required in metadata", "metadata")
          /\ UNCHANGED <<job, writes>>
       \/ /\ "messageId" \in DOMAIN metadata
          /\ ~get_user_oauth_token(tokenRow)
          /\ Raise("No OAuth token found for user", "credentials")
          /\ UNCHANGED <<job, writes>>
       \/ /\ "messageId" \in DOMAIN metadata
          /\ get_user_oauth_token(tokenRow)
          /\ \/ /\ pc' = "pm_run"
                /\ IF Get(metadata, "jobId", "") # ""
                      THEN SetJob("message_job", "RUNNING", <<>>, <<>>, <<>>)
                      ELSE UNCHANGED <<job, writes>>
                /\ UNCHANGED <<exc, faults>>
             \/ /\ Raise("database error", "db")
                /\ UNCHANGED <<job, writes>>
    /\ UNCHANGED <<jobType, metadata, caller, bfMeta, tokenRow, cursor, settingsRow,
                   provHist, messages, threads, bf, outcome, invoked, threadRuns,
                   fallback, cancelled, node, state, mail, calls, stages, rows,
                   nextRowId, txn, committed, tnode, tstate, threadRow, classified,
                   llmErr, sync, syncLog>>

PmRun ==
    /\ pc = "pm_run"
    /\ \E e \in MessageEnvs :
         LET r == message_processing_graph(e)
         IN /\ invoked' = Append(invoked, metadata.messageId)
            /\ messages' = IF r.stored THEN messages \cup {metadata.messageId} ELSE messages
            /\ writes' = IF r.stored THEN Append(writes, W("pipeline", "message", ""))
                                     ELSE writes
            /\ IF r.raised
                  THEN /\ Raise("message processing error", "message")
                       /\ UNCHANGED loc
                  ELSE /\ pc' = "pm_complete"
                       /\ loc' = [loc EXCEPT !.result = [processed |-> r.processed,
                                                         error |-> r.error]]
                       /\ UNCHANGED <<exc, faults>>
    /\ UNCHANGED <<jobType, metadata, caller, bfMeta, tokenRow, cursor, settingsRow,
                   provHist, job, threads, bf, outcome, threadRuns, fallback, cancelled,
                   node, state, mail, calls, stages, rows, nextRowId, txn, committed,
                   tnode, tstate, threadRow, classified, llmErr, sync, syncLog>>

\* A final write that ignores the pipeline's result.
MessageJobCompletedAlways(result) == TRUE

\* if result.get("processed"): COMPLETED, else FAILED with the result's error.
MessageJobCompleted(result) == result.processed

PmComplete ==
    /\ pc = "pm_complete"
    /\ \/ /\ pc' = "return"
          /\ IF loc.job_id = "" THEN UNCHANGED <<job, writes>>
             ELSE IF MessageJobCompleted(loc.result)
                     THEN SetJob("message_job", "COMPLETED", <<>>, <<>>, <<>>)
                     ELSE SetJob("message_job", "FAILED", <<>>, <<>>,
                                 IF loc.result.error # "" THEN <<loc.result.error>> ELSE <<>>)
          /\ UNCHANGED <<exc, faults>>
       \/ /\ loc.job_id # ""
          /\ Raise("database error", "db")
          /\ UNCHANGED <<job, writes>>
    /\ UNCHANGED <<jobType, metadata, caller, bfMeta, tokenRow, cursor, settingsRow,
                   provHist, messages, threads, loc, bf, outcome, invoked, threadRuns,
                   fallback, cancelled, node, state, mail, calls, stages, rows,
                   nextRowId, txn, committed, tnode, tstate, threadRow, classified,
                   llmErr, sync, syncLog>>

Next ==
    \/ Dispatch
    \/ ReturnCompleted
    \/ HandleException
    \/ BfBegin
    \/ BfList
    \/ BfMessage
    \/ BfThread
    \/ BfFinal
    \/ BfReturn
    \/ IncBegin
    \/ IncRunning
    \/ IncDiff
    \/ IncMessage
    \/ IncFinalProgress
    \/ IncThread
    \/ IncComplete
    \/ IncLog
    \/ PtBegin
    \/ PtRun
    \/ PtComplete
    \/ PmBegin
    \/ PmRun
    \/ PmComplete
    \/ ExternalCancel

Spec == Init /\ [][Next]_vars

\* ------------------------------------- message_processing_graph, node by node
\* The run of message_processing_graph.invoke inside a PROCESS_MESSAGE job,
\* one action per node of the graph, in the order of its edges.
jobVars == <<jobType, metadata, pc, caller, bfMeta, tokenRow, cursor, settingsRow,
             provHist, job, threads, loc, bf, outcome, exc, invoked, threadRuns,
             faults, fallback, cancelled, llmErr, sync, syncLog>>

tableVars == <<rows, nextRowId, txn, committed>>

threadVars == <<tnode, tstate, threadRow, classified>>

\* The UserSettings rows of the users whose messages are run.
PipelineRows ==
    {<<>>} \cup
    {<<[llmProvider |-> p, llmApiKeyEnc |-> k, redactionMode |-> r,
        excludeLabels |-> <<>>, backfillDays |-> DefaultBackfillDays]>> :
        p \in {"gemini-2.5-flash", "custom"},
        k \in {"", "enc-key"},
        r \in {"OFF", "REDACT_BEFORE_LLM", "SUMMARIES_ONLY"}}

\* process_message_job up to the invoke call, for message id 1.
PipelineInit ==
    /\ jobType = "PROCESS_MESSAGE"
    /\ metadata = [jobId |-> JobId, messageId |-> 1]
    /\ pc = "pm_run"
    /\ caller = "handler"
    /\ bfMeta = <<>>
    /\ tokenRow = TRUE
    /\ cursor = 0
    /\ settingsRow \in PipelineRows
    /\ provHist = MaxHist
    /\ job = [status |-> "RUNNING", progress |-> 0, totalItems |-> 0, error |-> ""]
    /\ messages = {}
    /\ threads = {}
    /\ loc = [NoLoc EXCEPT !.job_id = JobId, !.user_settings = get_user_settings(settingsRow)]
    /\ bf = NoLoc
    /\ outcome = <<>>
    /\ exc = ""
    /\ writes = <<W("message_job", "status", "RUNNING")>>
    /\ invoked = <<1>>
    /\ threadRuns = <<>>
    /\ faults = {}
    /\ fallback = [why |-> "", at |-> 0]
    /\ cancelled = FALSE
    /\ NoRows
    /\ NoThreadRun
    /\ NoSync
    /\ NoLLMError
    /\ node = "fetch_message"
    /\ state = initial_state(loc.user_settings)
    /\ mail = NoMail
    /\ calls = <<>>
    /\ stages = NoStages

FetchMessage ==
    /\ node = "fetch_message"
    /\ node' = "parse_message"
    /\ \/ \E m \in Mails :
            /\ mail' = m
            /\ state' = fetch_message_node(state, [fetch |-> "ok"])
            /\ stages' = [stages EXCEPT !.fetch = "ok"]
       \/ \E f \in {"not_found", "error"} :
            /\ state' = fetch_message_node(state, [fetch |-> f])
            /\ stages' = [stages EXCEPT !.fetch = f]
            /\ UNCHANGED mail
    /\ UNCHANGED <<jobVars, threadVars, tableVars, messages, writes, calls>>

ParseMessage ==
    /\ node = "parse_message"
    /\ node' = "detect_sensitive"
    /\ \E p \in IF state.raw_message THEN {"ok", "error"} ELSE {""} :
         /\ state' = parse_message_node(state, [parse |-> p])
         /\ stages' = [stages EXCEPT !.parse = p]
    /\ UNCHANGED <<jobVars, threadVars, tableVars, messages, writes, mail, calls>>

DetectSensitive ==
    /\ node = "detect_sensitive"
    /\ node' = "classify_message"
    /\ state' = detect_sensitive_node(state, mail)
    /\ UNCHANGED <<jobVars, threadVars, tableVars, messages, writes, mail, calls, stages>>

ClassifyMessage ==
    /\ node = "classify_message"
    /\ LET called == ClassifyPath(state, mail) = "model"
       IN \E o \in IF called THEN ModelOutcomes ELSE {""} :
            /\ state' = classify_message_node(state, mail, o)
            /\ stages' = [stages EXCEPT !.classify = o]
            /\ calls' = IF called
                           THEN Append(calls, [stage |-> "classify", body |-> ClassifyBody(state)])
                           ELSE calls
            /\ node' = IF state'.raised THEN "raised" ELSE "extract_entities"
    /\ UNCHANGED <<jobVars, threadVars, tableVars, messages, writes, mail>>

ExtractEntities ==
    /\ node = "extract_entities"
    /\ node' = "persist_message"
    /\ LET called == ExtractPath(state) = "model"
       IN \E o \in IF called THEN ModelOutcomes ELSE {""} :
            /\ state' = extract_entities_node(state, o)
            /\ stages' = [stages EXCEPT !.extract = o]
            /\ calls' = IF called
                           THEN Append(calls, [stage |-> "extract", body |-> ExtractBody(state, mail)])
                           ELSE calls
    /\ UNCHANGED <<jobVars, threadVars, tableVars, messages, writes, mail>>

\* persist_message_node, and the graph's END (or the exception leaving invoke).
PersistMessage ==
    /\ node = "persist_message"
    /\ \E e \in IF state.parsed_message
                   THEN {[encrypt |-> "raise", persist |-> ""],
                         [encrypt |-> "ok", persist |-> "ok"],
                         [encrypt |-> "ok", persist |-> "error"]}
                   ELSE {[encrypt |-> "", persist |-> ""]} :
         /\ state' = persist_message_node(state, e)
         /\ stages' = [stages EXCEPT !.encrypt = e.encrypt, !.persist = e.persist,
                                     !.sensitive_flags = IF state'.stored
                                                            THEN merged_sensitive_flags(state)
                                                            ELSE @]
         /\ node' = IF state'.raised THEN "raised" ELSE "END"
         /\ messages' = IF state'.stored THEN messages \cup {metadata.messageId} ELSE messages
         /\ writes' = IF state'.stored THEN Append(writes, W("pipeline", "message", ""))
                                       ELSE writes
    /\ UNCHANGED <<jobVars, threadVars, tableVars, mail, calls>>

PipelineNext ==
    \/ FetchMessage
    \/ ParseMessage
    \/ DetectSensitive
    \/ ClassifyMessage
    \/ ExtractEntities
    \/ PersistMessage

PipelineSpec == PipelineInit /\ [][PipelineNext]_vars

\* --------------------------- persist_message_node of concurrent pipeline runs
\* The persist transactions of the message pipelines of two jobs of one user:
\* the upsert statement, then the commit at the exit of `with get_db()`, or
\* the rollback when log_processing or the commit raised.
runVars == <<node, state, mail, calls, stages>>

\* The single-job variables, at rest while the table is followed on its own.
JobAtRest ==
    /\ jobType = "PROCESS_MESSAGE"
    /\ metadata = <<>>
    /\ pc = "done"
    /\ caller = "handler"
    /\ bfMeta = <<>>
    /\ tokenRow = TRUE
    /\ cursor = 0
    /\ provHist = MaxHist
    /\ job = [status |-> "PENDING", progress |-> 0, totalItems |-> 0, error |-> ""]
    /\ messages = {}
    /\ threads = {}
    /\ loc = NoLoc
    /\ bf = NoLoc
    /\ outcome = <<>>
    /\ exc = ""
    /\ writes = <<>>
    /\ invoked = <<>>
    /\ threadRuns = <<>>
    /\ faults = {}
    /\ fallback = [why |-> "", at |-> 0]
    /\ cancelled = FALSE

UpsertInit ==
    /\ JobAtRest
    /\ settingsRow = <<>>
    /\ NoRun
    /\ NoRows
    /\ NoThreadRun
    /\ NoSync
    /\ NoLLMError

RowsOf(key) == {r \in rows : r.gmailMessageId = key}

\* The upsert statement of job j for message id k, of a message without
\* labels.  A statement on a key that another open transaction has written
\* waits for that transaction to end.
UpsertStatement ==
    \E j \in Jobs, k \in Keys :
        /\ Len(txn[j]) = 0
        /\ nextRowId <= MaxUpserts
        /\ \A o \in Jobs \ {j} : Len(txn[o]) = 1 => txn[o][1].key # k
        /\ txn' = [txn EXCEPT ![j] =
                      <<[key |-> k, fresh |-> nextRowId,
                         rows |-> upsert_message(
                                      RowsOf(k),
                                      message_data(k, {}, FallbackClassification(state), TRUE),
                                      nextRowId)]>>]
        /\ nextRowId' = nextRowId + 1
        /\ UNCHANGED <<jobVars, threadVars, runVars, messages, writes, rows, committed>>

\* get_db: db.commit() at the exit of the with block.
PersistCommit ==
    \E j \in Jobs :
        /\ Len(txn[j]) = 1
        /\ rows' = (rows \ RowsOf(txn[j][1].key)) \cup txn[j][1].rows
        /\ committed' = Append(committed, [job |-> j, key |-> txn[j][1].key,
                                           fresh |-> txn[j][1].fresh])
        /\ txn' = [txn EXCEPT ![j] = <<>>]
        /\ UNCHANGED <<jobVars, threadVars, runVars, messages, writes, nextRowId>>

\* get_db: db.rollback() when the block raised; persist_message_node then
\* returns processed=False with the error.
PersistRollback ==
    \E j \in Jobs :
        /\ Len(txn[j]) = 1
        /\ txn' = [txn EXCEPT ![j] = <<>>]
        /\ UNCHANGED <<jobVars, threadVars, runVars, messages, writes, rows, nextRowId, committed>>

UpsertNext ==
    \/ UpsertStatement
    \/ PersistCommit
    \/ PersistRollback

UpsertSpec == UpsertInit /\ [][UpsertNext]_vars

\* ------------------------------------ thread_processing_graph, node by node
\* The Message rows of conversation "t1" as message pipeline runs persist
\* them, and the runs of process_single_thread over them, one action per node
\* of the graph.  A run is one job's; the rows do not change while it runs.
Members == {1, 3, 5}

\* The classifications a member is persisted with.
StoredClassifications ==
    {RuleResult("bills"), RuleResult("school"),
     ClassificationResult("misc", "NORMAL", FALSE, 0, <<>>, 0)}

\* The UserSettings rows of the users whose conversations are run.
ThreadRows ==
    {r \in PipelineRows :
        \/ Len(r) = 0
        \/ /\ r[1].llmApiKeyEnc # ""
           /\ r[1].llmProvider = "custom" => r[1].redactionMode = "OFF"}

ThreadInit ==
    /\ JobAtRest
    /\ settingsRow \in ThreadRows
    /\ NoRun
    /\ NoRows
    /\ NoThreadRun
    /\ NoSync
    /\ NoLLMError

\* The members the provider holds: those stored and the next to arrive (the
\* members arrive, and are stored, in the order of their ids).
Arrived ==
    LET stored == {r.gmailMessageId : r \in rows}
    IN {k \in Members : \A l \in Members : l < k => l \in stored}

BetweenRuns == tnode \in {"idle", "END", "raised"}

\* persist_message_node of a message pipeline run for a member of "t1", in a
\* job of its own: the context and the calls of the last thread run are gone.
PersistMember ==
    /\ BetweenRuns
    /\ nextRowId <= MaxPersists
    /\ \E k \in Arrived, labels \in LabelSets, c \in StoredClassifications :
         /\ rows' = upsert_message(rows, message_data(k, labels, c, TRUE), nextRowId)
         /\ classified' = (k :> c.needs_reply) @@ classified
    /\ nextRowId' = nextRowId + 1
    /\ tnode' = "idle"
    /\ tstate' = thread_initial_state(<<>>, <<>>)
    /\ calls' = <<>>
    /\ UNCHANGED <<jobVars, messages, writes, node, state, mail, stages, txn, committed,
                   threadRow>>

\* process_single_thread up to the invoke call; it returns when the
\* conversation has no stored message.
LoadThread ==
    /\ BetweenRuns
    /\ LET thread_messages == ThreadMessages(rows, "t1")
       IN IF Len(thread_messages) = 0
             THEN /\ tnode' = "idle"
                  /\ UNCHANGED <<tstate, calls>>
             ELSE /\ tnode' = "summarize_thread"
                  /\ tstate' = thread_initial_state(get_user_settings(settingsRow),
                                                    thread_messages)
                  /\ calls' = <<>>
    /\ UNCHANGED <<jobVars, tableVars, messages, writes, node, state, mail, stages,
                   threadRow, classified>>

SummarizeThread ==
    /\ tnode = "summarize_thread"
    /\ tnode' = "generate_embedding"
    /\ LET called == SummarizePath(tstate) = "model"
       IN \E o \in IF called THEN ModelOutcomes ELSE {""} :
            /\ tstate' = summarize_thread_node(tstate, o)
            /\ calls' = IF called
                           THEN Append(calls, [stage |-> "summarize", body |-> SummarizeBody(tstate)])
                           ELSE calls
    /\ UNCHANGED <<jobVars, tableVars, messages, writes, node, state, mail, stages,
                   threadRow, classified>>

GenerateEmbedding ==
    /\ tnode = "generate_embedding"
    /\ tnode' = "persist_thread"
    /\ LET called == EmbeddingPath(tstate) = "model"
       IN \E o \in IF called THEN {"ok", "none"} ELSE {""} :
            /\ tstate' = generate_embedding_node(tstate, o)
            /\ calls' = IF called THEN Append(calls, [stage |-> "embedding", body |-> ""])
                                   ELSE calls
    /\ UNCHANGED <<jobVars, tableVars, messages, writes, node, state, mail, stages,
                   threadRow, classified>>

\* persist_thread_node, and the graph's END (or the exception leaving invoke).
PersistThread ==
    /\ tnode = "persist_thread"
    /\ LET categories == [i \in 1..Len(tstate.messages) |-> member_category(tstate.messages[i])]
       IN \E o \in IF PersistThreadPath(tstate) = "upsert" THEN {"ok", "error"} ELSE {""},
             category \in IF Len(categories) > 0 THEN MostCommon(categories) ELSE {"misc"} :
            /\ tstate' = persist_thread_node(tstate, o)
            /\ threadRow' = IF tstate'.processed
                               THEN upsert_thread(threadRow, thread_data(tstate, category))
                               ELSE threadRow
            /\ tnode' = IF tstate'.raised THEN "raised" ELSE "END"
    /\ UNCHANGED <<jobVars, tableVars, runVars, messages, writes, classified>>

ThreadNext ==
    \/ PersistMember
    \/ LoadThread
    \/ SummarizeThread
    \/ GenerateEmbedding
    \/ PersistThread

ThreadSpec == ThreadInit /\ [][ThreadNext]_vars

\* ------------------------------------------------ classify_llm_error, applied
\* The failures of a model call: texts of at most MaxMarkers markers, with or
\* without a retry-after header on the response, from either provider.
FailureTexts == {t \in SUBSET Markers : Cardinality(t) <= MaxMarkers}

RetryAfterHeaders == {<<>>, <<0>>, <<5>>}

ErrorInit ==
    /\ JobAtRest
    /\ settingsRow = <<>>
    /\ NoRun
    /\ NoRows
    /\ NoThreadRun
    /\ NoSync
    /\ llmErr \in [error : [text : FailureTexts, retry_after_header : RetryAfterHeaders],
                   provider : {"gemini-2.5-flash", "custom"},
                   result : {<<>>}]

\* The except clause of a model call: raise classify_llm_error(e, provider).
ClassifyLLMError ==
    /\ llmErr.result = <<>>
    /\ llmErr' = [llmErr EXCEPT !.result = <<classify_llm_error(llmErr.error,
                                                                llmErr.provider)>>]
    /\ UNCHANGED <<jobType, metadata, pc, caller, bfMeta, tokenRow, cursor, settingsRow,
                   provHist, job, threads, loc, bf, outcome, exc, invoked, threadRuns,
                   faults, fallback, cancelled, messages, writes, runVars, tableVars,
                   threadVars, sync, syncLog>>

ErrorNext ==
    \/ ClassifyLLMError

ErrorSpec == ErrorInit /\ [][ErrorNext]_vars

\* ------------------------------------------- the cursor across sync runs
\* The sync runs of one user against a mailbox that grows while they run.
\* The message added at change-log position k has id k, so the mailbox is
\* 1..provHist; every message lies inside the backfill window.

\* fetch_message_ids_for_backfill: the ids in the mailbox at the time of the call.
fetch_message_ids_for_backfill(mailbox) == 1..mailbox

\* fetch_history_changes: the ids added after start_history_id, and the
\* provider's position at the time of the call.
fetch_history_changes(start_history_id, mailbox) ==
    [message_ids |-> (start_history_id + 1)..mailbox, new_history_id |-> mailbox]

\* get_gmail_profile(...)["history_id"]: the provider's position at the call.
get_gmail_profile(mailbox) == mailbox

SyncEvent(j, op, ids, from, to) == [job |-> j, op |-> op, ids |-> ids, from |-> from, to |-> to]

SyncInit ==
    /\ jobType = "INCREMENTAL"
    /\ metadata = <<>>
    /\ pc = "done"
    /\ caller = "handler"
    /\ bfMeta = <<>>
    /\ tokenRow = TRUE
    /\ cursor = 0
    /\ settingsRow = <<>>
    /\ provHist \in 0..1
    /\ job = [status |-> "PENDING", progress |-> 0, totalItems |-> 0, error |-> ""]
    /\ messages = {}
    /\ threads = {}
    /\ loc = NoLoc
    /\ bf = NoLoc
    /\ outcome = <<>>
    /\ exc = ""
    /\ writes = <<>>
    /\ invoked = <<>>
    /\ threadRuns = <<>>
    /\ faults = {}
    /\ fallback = [why |-> "", at |-> 0]
    /\ cancelled = FALSE
    /\ NoRun
    /\ NoRows
    /\ NoThreadRun
    /\ NoLLMError
    /\ NoSync

syncFrame == <<jobType, metadata, pc, caller, bfMeta, tokenRow, settingsRow, job,
               messages, threads, loc, bf, outcome, exc, writes, invoked, threadRuns,
               faults, fallback, cancelled, llmErr, runVars, tableVars, threadVars>>

\* A message is added at the provider.
MailArrives ==
    /\ provHist < MaxMail
    /\ provHist' = provHist + 1
    /\ UNCHANGED <<syncFrame, cursor, sync, syncLog>>

\* handle_job dispatches a BACKFILL or INCREMENTAL job; the incremental job
\* reads the stored cursor and delegates to the backfill when there is none.
SyncBegin(j) ==
    /\ sync[j].at = "idle"
    /\ Len(syncLog) < MaxSyncEvents
    /\ \E kind \in {"BACKFILL", "INCREMENTAL"} :
         sync' = [sync EXCEPT ![j] =
                    [kind |-> kind,
                     at |-> IF kind = "INCREMENTAL" /\ cursor # 0 THEN "diff" ELSE "list",
                     history_id |-> IF kind = "INCREMENTAL" THEN cursor ELSE 0,
                     new_history_id |-> 0]]
    /\ UNCHANGED <<syncFrame, cursor, provHist, syncLog>>

\* process_backfill_job lists its candidate ids.
SyncList(j) ==
    /\ sync[j].at = "list"
    /\ sync' = [sync EXCEPT ![j].at = "backfill_loop"]
    /\ syncLog' = Append(syncLog, SyncEvent(j, "list", fetch_message_ids_for_backfill(provHist),
                                            0, provHist))
    /\ UNCHANGED <<syncFrame, cursor, provHist>>

\* process_incremental_job diffs from the cursor it read: the provider
\* answers 404 (the job delegates to the backfill) or returns the changes.
SyncDiff(j) ==
    /\ sync[j].at = "diff"
    /\ \/ /\ sync' = [sync EXCEPT ![j].at = "list"]
          /\ UNCHANGED syncLog
       \/ LET changes == fetch_history_changes(sync[j].history_id, provHist)
          IN /\ sync' = [sync EXCEPT ![j].at = "incremental_loop",
                                     ![j].new_history_id = changes.new_history_id]
             /\ syncLog' = Append(syncLog, SyncEvent(j, "diff", changes.message_ids,
                                                     sync[j].history_id,
                                                     changes.new_history_id))
    /\ UNCHANGED <<syncFrame, cursor, provHist>>

\* The end of the run, after its message loop and thread pass: the backfill
\* stores the provider's position of that moment, the incremental job the
\* position its diff returned (update_user_history_id, a plain UPDATE).
SyncStore(j) ==
    /\ sync[j].at \in {"backfill_loop", "incremental_loop"}
    /\ LET history_id == IF sync[j].at = "backfill_loop" THEN get_gmail_profile(provHist)
                         ELSE sync[j].new_history_id
       IN /\ cursor' = IF history_id # 0 THEN history_id ELSE cursor
          /\ syncLog' = IF history_id # 0
                           THEN Append(syncLog, SyncEvent(j, "cursor", {}, cursor, history_id))
                           ELSE syncLog
    /\ sync' = [sync EXCEPT ![j] = NoSyncJob]
    /\ UNCHANGED <<syncFrame, provHist>>

SyncNext ==
    \/ MailArrives
    \/ \E j \in Jobs : SyncBegin(j)
    \/ \E j \in Jobs : SyncList(j)
    \/ \E j \in Jobs : SyncDiff(j)
    \/ \E j \in Jobs : SyncStore(j)

SyncSpec == SyncInit /\ [][SyncNext]_vars

\* ================================================================ claims
HasJobId == Get(metadata, "jobId", "") # ""

\* The status values the job row has held, oldest first.
ObservedStatuses ==
    LET sw == SelectSeq(writes, LAMBDA w : w.kind = "status")
    IN <<"PENDING">> \o [i \in 1..Len(sw) |-> sw[i].status]

Rank(st) == IF st = "PENDING" THEN 0 ELSE IF st = "RUNNING" THEN 1 ELSE 2

\* The indices of the writes the job itself made to the job row with a
\* terminal status.
TerminalWrites ==
    {i \in 1..Len(writes) : /\ writes[i].kind = "status"
                            /\ writes[i].status \in Terminal
                            /\ writes[i].by # "external"}

\* The candidate ids of the message loop the job ran.
LoopIds ==
    IF jobType = "BACKFILL" \/ fallback.why # "" THEN bf.message_ids ELSE loc.message_ids

\* C1: the statuses a job row holds over an execution are, ignoring repeats,
\* a subsequence of PENDING, RUNNING, terminal: every change of status goes
\* strictly forward, and no write changes a terminal status.
C1_MonotonicStatus ==
    \A i \in 1..(Len(ObservedStatuses) - 1) :
        \/ ObservedStatuses[i] = ObservedStatuses[i + 1]
        \/ Rank(ObservedStatuses[i]) < Rank(ObservedStatuses[i + 1])

\* C2 as claimed: every exception of a job ends in the failed response with
\* the error text, and with a jobId the job row is FAILED with that text.
C2_FailedRowAlways ==
    (pc = "done" /\ exc # "") =>
        /\ outcome = <<[status |-> "failed", error |-> exc]>>
        /\ HasJobId => (job.status = "FAILED" /\ job.error = exc)

\* C2 as amended: every exception raised in a job is caught by handle_job,
\* which returns the failed response with the error text; with a jobId the
\* job row is FAILED with that text unless that status write itself failed.
C2_ExceptionReported ==
    /\ exc # "" => pc \in {"handler", "done"}
    /\ (pc = "done" /\ exc # "") =>
          /\ outcome = <<[status |-> "failed", error |-> exc]>>
          /\ (HasJobId /\ "handler_db" \notin faults) =>
                (job.status = "FAILED" /\ job.error = exc)

C2_Witness ==
    /\ pc = "done"
    /\ jobType = "EXPORT"
    /\ exc = "Unknown job type"
    /\ job.status = "FAILED"
    /\ job.error = "Unknown job type"

\* C3: an INCREMENTAL job that ran its own message loop with at least one
\* stored message and is COMPLETED has progress = totalItems = the number of
\* messages the pipeline stored, whatever the number of candidates and failures.
C3_IncrementalAccounting ==
    (/\ jobType = "INCREMENTAL"
     /\ fallback.why = ""
     /\ job.status = "COMPLETED"
     /\ messages # {}) =>
        /\ job.progress = Cardinality(messages)
        /\ job.totalItems = Cardinality(messages)

C3_Witness ==
    /\ pc = "done"
    /\ jobType = "INCREMENTAL"
    /\ fallback.why = ""
    /\ job.status = "COMPLETED"
    /\ Len(loc.message_ids) = MaxMsgs
    /\ Cardinality(messages) = MaxMsgs - 1
    /\ loc.failed = 1
    /\ job.progress = MaxMsgs - 1

\* C4: an INCREMENTAL job whose diff returned the stale-cursor signal and in
\* which nothing else failed ends COMPLETED, written by the backfill path
\* that ran with a 7-day window.
C4_StaleFallback ==
    (/\ pc = "done"
     /\ jobType = "INCREMENTAL"
     /\ loc.diffed /\ loc.message_ids = <<>> /\ loc.new_history_id = 0
     /\ HasJobId
     /\ exc = "") =>
        /\ fallback.why = "stale"
        /\ bf.backfill_days = 7
        /\ job.status = "COMPLETED"
        /\ writes[Len(writes)] = W("backfill", "status", "COMPLETED")
        /\ outcome = <<[status |-> "completed", error |-> ""]>>

C4_Witness ==
    /\ pc = "done"
    /\ loc.diffed /\ loc.new_history_id = 0
    /\ HasJobId
    /\ job.status = "COMPLETED"
    /\ bf.message_ids # <<>>
    /\ invoked = bf.message_ids

\* C5: when an INCREMENTAL job falls back to the backfill and the user has a
\* settings row with an exclusion list, the backfill excludes those labels.
C5_FallbackExclusions ==
    (fallback.why # "" /\ pc # "bf_begin" /\ Len(settingsRow) > 0) =>
        bf.exclude_labels = settingsRow[1].excludeLabels

\* C6: after the delegation the incremental function writes nothing more;
\* when the delegated backfill returns, the cursor was written once and the
\* job's terminal status once, both by the backfill.
C6_FullDelegation ==
    fallback.why # "" =>
        /\ \A i \in (fallback.at + 1)..Len(writes) : writes[i].by # "incremental"
        /\ (pc = "done" /\ exc = "") =>
              /\ \E i \in 1..Len(writes) :
                    /\ writes[i] = W("backfill", "cursor", "")
                    /\ \A j \in 1..Len(writes) : writes[j].kind = "cursor" => j = i
              /\ HasJobId =>
                    \E i \in TerminalWrites :
                        /\ writes[i].by = "backfill"
                        /\ TerminalWrites = {i}

C6_Witness ==
    /\ pc = "done"
    /\ fallback.why = "absent"
    /\ exc = ""
    /\ HasJobId
    /\ job.status = "COMPLETED"
    /\ messages # {}

\* C7: an INCREMENTAL job whose diff returned no ids and a new cursor, and in
\* which the write did not fail, stores that cursor, runs no pipeline and is
\* COMPLETED with progress = 0 and totalItems = 0.
C7_NoChanges ==
    (/\ pc \in {"return", "done"}
     /\ jobType = "INCREMENTAL"
     /\ loc.diffed /\ loc.message_ids = <<>> /\ loc.new_history_id # 0
     /\ exc = "") =>
        /\ cursor = loc.new_history_id
        /\ invoked = <<>> /\ threadRuns = <<>>
        /\ messages = {} /\ threads = {}
        /\ HasJobId => (job.status = "COMPLETED" /\ job.progress = 0 /\ job.totalItems = 0)

C7_Witness ==
    /\ pc = "done"
    /\ jobType = "INCREMENTAL"
    /\ loc.diffed /\ loc.message_ids = <<>> /\ loc.new_history_id = provHist
    /\ HasJobId
    /\ job.status = "COMPLETED"
    /\ cursor = provHist

\* C8: once the backfill has written COMPLETED, the row has progress =
\* totalItems = the number of listed ids; the provider's current cursor was
\* stored just before, in the same transaction, after every message was
\* attempted and every touched conversation was run.
C8_BackfillCompletion ==
    \A k \in 1..Len(writes) :
        writes[k] = W("backfill", "status", "COMPLETED") =>
            /\ job.status = "COMPLETED"
            /\ job.progress = Len(bf.message_ids)
            /\ job.totalItems = Len(bf.message_ids)
            /\ k > 1 /\ writes[k - 1] = W("backfill", "cursor", "")
            /\ cursor = provHist
            /\ \A j \in 1..Len(writes) : writes[j].kind \in {"message", "thread"} => j < k
            /\ invoked = bf.message_ids
            /\ Range(threadRuns) = bf.threads_to_process

C8_Witness ==
    /\ pc = "done"
    /\ jobType = "BACKFILL"
    /\ job.status = "COMPLETED"
    /\ Len(bf.message_ids) = MaxMsgs
    /\ bf.processed = MaxMsgs - 1
    /\ job.progress = MaxMsgs
    /\ threads # {}

\* C9: in an INCREMENTAL job that ran its own loops and in which nothing but
\* thread processing failed, every touched conversation was run and the job
\* is COMPLETED.
C9_ThreadFailureTolerated ==
    (/\ pc = "done"
     /\ jobType = "INCREMENTAL"
     /\ fallback.why = ""
     /\ loc.message_ids # <<>>
     /\ HasJobId
     /\ faults \subseteq {"thread"}) =>
        /\ Range(threadRuns) = loc.threads_to_process
        /\ Len(threadRuns) = Cardinality(loc.threads_to_process)
        /\ job.status = "COMPLETED"
        /\ outcome = <<[status |-> "completed", error |-> ""]>>

C9_Witness ==
    /\ pc = "done"
    /\ jobType = "INCREMENTAL"
    /\ fallback.why = ""
    /\ job.status = "COMPLETED"
    /\ loc.threads_to_process = {"t1", "t2"}
    /\ loc.thread_errors # {}
    /\ threads # {}

\* C10: once the message loop of a BACKFILL or INCREMENTAL job has started,
\* the job does not end before every candidate id was passed to the message
\* pipeline, once each and in list order.
C10_LoopNeverStops ==
    (/\ pc = "done"
     /\ jobType \in {"BACKFILL", "INCREMENTAL"}
     /\ invoked # <<>>) =>
        invoked = LoopIds

\* C11: a PROCESS_THREAD job with a jobId whose conversation has Message rows,
\* and in which nothing raised, ran the thread pipeline once and its row is
\* COMPLETED exactly when that run ended with processed=true and FAILED when
\* it ended with processed=false.
C11_ThreadOutcomeMapped ==
    (/\ pc = "done"
     /\ jobType = "PROCESS_THREAD"
     /\ HasJobId
     /\ Len(threadRuns) = 1
     /\ MembersOf(metadata.threadId) # {}
     /\ faults = {}) =>
        /\ (job.status = "COMPLETED") <=> loc.result.processed
        /\ ~loc.result.processed => job.status = "FAILED"

\* C12: a PROCESS_MESSAGE job with a jobId and a messageId, for a user with a
\* credential, in which nothing raised, ran the message pipeline once on that
\* id; its row is COMPLETED exactly when the run ended with processed=true,
\* and otherwise FAILED with the run's error text.
C12_MessageOutcomeMapped ==
    (/\ pc = "done"
     /\ jobType = "PROCESS_MESSAGE"
     /\ HasJobId
     /\ "messageId" \in DOMAIN metadata
     /\ tokenRow
     /\ faults = {}) =>
        /\ invoked = <<metadata.messageId>>
        /\ (job.status = "COMPLETED") <=> loc.result.processed
        /\ ~loc.result.processed =>
              /\ job.status = "FAILED"
              /\ loc.result.error # ""
              /\ job.error = loc.result.error

C12_Witness ==
    /\ pc = "done"
    /\ jobType = "PROCESS_MESSAGE"
    /\ faults = {}
    /\ invoked = <<1>>
    /\ ~loc.result.processed
    /\ job.status = "FAILED"
    /\ job.error = "Failed to persist message"

\* The precondition a job function checks before any work is missing: the
\* user has no credential, or a single-item job's metadata lacks its id.
PreconditionMissing ==
    \/ ~tokenRow
    \/ jobType = "PROCESS_THREAD" /\ "threadId" \notin DOMAIN metadata
    \/ jobType = "PROCESS_MESSAGE" /\ "messageId" \notin DOMAIN metadata

\* C13: a job of a known type with a jobId whose precondition is missing, and
\* whose FAILED write did not itself fail, ends FAILED with the error text;
\* no pipeline was run and no Message row, Thread row or cursor was written.
C13_MissingPrecondition ==
    (/\ pc = "done"
     /\ jobType # "EXPORT"
     /\ HasJobId
     /\ PreconditionMissing
     /\ "handler_db" \notin faults) =>
        /\ job.status = "FAILED"
        /\ exc \in {"No OAuth token found for user", "threadId required in metadata",
                     "messageId required in metadata"}
        /\ job.error = exc
        /\ outcome = <<[status |-> "failed", error |-> exc]>>
        /\ invoked = <<>> /\ threadRuns = <<>>
        /\ \A i \in 1..Len(writes) : writes[i].kind = "status"
        /\ threads = {}

C13_Witness ==
    /\ pc = "done"
    /\ jobType = "INCREMENTAL"
    /\ HasJobId
    /\ ~tokenRow
    /\ job.status = "FAILED"
    /\ job.error = "No OAuth token found for user"

\* The node of the run is past the classify stage.
PastClassify == node \in {"extract_entities", "persist_message", "END", "raised"}

\* The model calls the classify stage made.
ClassifyCalls == SelectSeq(calls, LAMBDA c : c.stage = "classify")

\* C15: a run that ended has processed=true exactly when fetch, parse and
\* persist succeeded, and then no error; when one of them failed it has
\* processed=false with an error; whatever the classify and extract stages
\* did, model errors included.
C15_ProcessedIffThreeStages ==
    node = "END" =>
        LET ok == stages.fetch = "ok" /\ stages.parse = "ok" /\ stages.persist = "ok"
        IN /\ state.processed <=> ok
           /\ ok => state.error = ""
           /\ ~ok => state.error # ""

C15_Witness ==
    /\ node = "END"
    /\ state.processed
    /\ state.error = ""
    /\ stages.classify = "llm_error"
    /\ stages.extract = "error"

\* C16: once a message is parsed, the classify stage returns and leaves a
\* classification in the state, whatever the message holds.
C16_ClassifyAlwaysReturns ==
    (state.parsed_message /\ PastClassify) => Len(state.classification) = 1

\* C17: when no rule matches, a key is configured and the model call of the
\* classify stage raised, the classification is misc / NORMAL / no reply /
\* spam 0 / confidence 0, one call was made, the run goes on to persist, and
\* a persist that succeeds ends the run with processed=true.
C17_ModelErrorDegrades ==
    (/\ PastClassify
     /\ Len(classify_with_rules(mail.domain, mail.text)) = 0
     /\ state.llm_api_key_enc # ""
     /\ stages.classify \in {"llm_error", "error"}) =>
        /\ Len(state.classification) = 1
        /\ state.classification[1].category = "misc"
        /\ state.classification[1].priority = "NORMAL"
        /\ state.classification[1].needs_reply = FALSE
        /\ state.classification[1].spam_score = 0
        /\ state.classification[1].confidence = 0
        /\ Len(ClassifyCalls) = 1
        /\ node = "raised" => stages.encrypt = "raise"
        /\ (node = "END" /\ stages.persist = "ok") =>
              (state.processed /\ state.stored /\ messages = {1})

C17_Witness ==
    /\ node = "END"
    /\ stages.classify = "llm_error"
    /\ state.classification[1].category = "misc"
    /\ state.processed
    /\ messages = {1}

\* C18: a parsed message whose sender domain is in the newsletter domain list
\* is classified newsletters with confidence 0.9 and without a model call.
C18_NewsletterDomain ==
    (state.parsed_message /\ PastClassify /\ mail.domain \in newsletter_domains) =>
        /\ Len(state.classification) = 1
        /\ state.classification[1].category = "newsletters"
        /\ state.classification[1].confidence = 90
        /\ Len(ClassifyCalls) = 0

\* The order of the rules, by category.
C19_Order ==
    <<"newsletters", "receipts", "shipping", "bills", "social", "school", "hiring", "finance">>

\* C19: for every fetched message the rule matcher returns nothing when no
\* rule's condition holds, and otherwise the result of the earliest rule of
\* the fixed order whose condition holds; the classify stage that decided by
\* rules left that category in the state.
C19_FirstRuleWins ==
    stages.fetch = "ok" =>
        LET r == classify_with_rules(mail.domain, mail.text)
            holding == {i \in 1..Len(C19_Order) : RuleHolds(C19_Order[i], mail.domain, mail.text)}
        IN /\ holding = {} <=> Len(r) = 0
           /\ holding # {} =>
                /\ \E i \in holding :
                      /\ \A j \in holding : i <= j
                      /\ r[1] = RuleResult(C19_Order[i])
                /\ (PastClassify /\ ClassifyPath(state, mail) = "rules") =>
                      state.classification = r

C19_Witness ==
    /\ node = "END"
    /\ mail.domain = "amazon.com"
    /\ mail.text = {"invoice #", "statement"}
    /\ Len(state.classification) = 1
    /\ state.classification[1].category = "receipts"

\* C20: the classify stage of a parsed message made a model call exactly when
\* a key is configured and no rule matched or the matching rule's confidence
\* is below 0.8; without a key the classification is the rule's result when
\* a rule matched and the zero-confidence misc default otherwise.
C20_ModelCallCondition ==
    (state.parsed_message /\ PastClassify) =>
        LET r == classify_with_rules(mail.domain, mail.text)
        IN /\ Len(ClassifyCalls) = 1 <=>
                (state.llm_api_key_enc # "" /\ (Len(r) = 0 \/ r[1].confidence < 80))
           /\ Len(ClassifyCalls) <= 1
           /\ state.llm_api_key_enc = "" =>
                state.classification =
                    IF Len(r) > 0 THEN r
                    ELSE <<ClassificationResult("misc", "NORMAL", FALSE, 0,
                                                state.sensitive_flags, 0)>>

\* The committed upserts of message id k, oldest first.
CommittedFor(k) == SelectSeq(committed, LAMBDA c : c.key = k)

\* C14: whatever pipeline runs of the two jobs persisted a message id, in any
\* interleaving, the Message table holds no row for an id never committed and
\* exactly one row for an id committed at least once, and that row's identity
\* is the one generated by the first committed run.
C14_OneRowFirstIdentity ==
    \A k \in Keys :
        IF Len(CommittedFor(k)) = 0 THEN RowsOf(k) = {}
        ELSE /\ Cardinality(RowsOf(k)) = 1
             /\ \A r \in RowsOf(k) :
                   /\ r.id = CommittedFor(k)[1].fresh
                   /\ r.version = Len(CommittedFor(k))

C14_Witness ==
    /\ Len(CommittedFor(1)) = 3
    /\ CommittedFor(1)[1].job = "A"
    /\ CommittedFor(1)[2].job = "B"
    /\ Len(txn["A"]) = 1
    /\ \E r \in rows : r.gmailMessageId = 1 /\ r.version = 3 /\ r.id = CommittedFor(1)[1].fresh

\* The extract stage of the run has returned.
PastExtract == node \in {"persist_message", "END"}

ExtractCalls == SelectSeq(calls, LAMBDA c : c.stage = "extract")

\* C21: with redaction mode SUMMARIES_ONLY, once the extract stage of a parsed
\* message has returned, the context holds the empty extraction and the stage
\* made no model call, with or without model credentials.
C21_SummariesOnlyExtraction ==
    (PastExtract /\ state.parsed_message /\ state.redaction_mode = "SUMMARIES_ONLY")
        => /\ state.extraction = <<EmptyExtraction>>
           /\ Len(ExtractCalls) = 0

\* The thread pipeline run has ended with the Thread row written.
ThreadPersisted == tnode = "END" /\ tstate.processed /\ Len(threadRow) = 1

\* The stored member messages of "t1", in iteration order (ORDER BY date).
StoredMembers ==
    LET members == {r \in rows : ThreadOf(r.gmailMessageId) = "t1"}
        n == Cardinality(members)
    IN IF n = 0 THEN <<>>
       ELSE CHOOSE q \in [1..n -> members] :
                \A i, j \in 1..n : i < j => q[i].gmailMessageId < q[j].gmailMessageId

SummarizeCalls == SelectSeq(calls, LAMBDA c : c.stage = "summarize")

\* C22: no model call of a job of a user with redaction mode SUMMARIES_ONLY
\* receives body text, and every body text a model call of a user with mode
\* REDACT_BEFORE_LLM receives has passed through the redactor.
C22_RedactionRespected ==
    \A i \in 1..Len(calls) :
        /\ get_user_settings(settingsRow).redaction_mode = "SUMMARIES_ONLY"
              => calls[i].body = ""
        /\ get_user_settings(settingsRow).redaction_mode = "REDACT_BEFORE_LLM"
              => calls[i].body \in {"", "redacted"}

\* The most frequent category of a list, a tie going to the one seen first.
FirstMostFrequent(categories) ==
    LET first == CHOOSE i \in 1..Len(categories) :
                     /\ categories[i] \in MostCommon(categories)
                     /\ \A j \in 1..(i - 1) : categories[j] \notin MostCommon(categories)
    IN categories[first]

\* C23: when a thread pipeline run has persisted the Thread, its category is
\* the most frequent category of the stored member messages, a tie going to
\* the category seen first; members [bills, bills, misc] give bills.
C23_MajorityCategory ==
    ThreadPersisted =>
        threadRow[1].category =
            FirstMostFrequent([i \in 1..Len(StoredMembers) |-> StoredMembers[i].category])

\* C24: after any sequence of thread pipeline runs, the Thread row written by
\* the latest run has isRead = no member carries UNREAD and isStarred = some
\* member carries STARRED, over the members of that run.
C24_ThreadReadStarred ==
    ThreadPersisted =>
        /\ threadRow[1].isRead =
               (\A i \in 1..Len(tstate.messages) : "UNREAD" \notin tstate.messages[i].labels)
        /\ threadRow[1].isStarred =
               (\E i \in 1..Len(tstate.messages) : "STARRED" \in tstate.messages[i].labels)

\* C26: when a thread pipeline run has persisted the Thread, needsReply is
\* true exactly when some member message was classified with needs_reply.
C26_NeedsReplyIsOr ==
    ThreadPersisted =>
        threadRow[1].needsReply =
            (\E i \in 1..Len(StoredMembers) : classified[StoredMembers[i].gmailMessageId])

\* C25: after any sequence of message pipeline persists of the same message
\* id, a re-run after a label change among them, the stored Message row has isRead = (UNREAD is not among its
\* stored labels) and isStarred = (STARRED is among its stored labels).
C25_MessageReadStarred ==
    \A r \in rows :
        /\ r.isRead = ("UNREAD" \notin r.labels)
        /\ r.isStarred = ("STARRED" \in r.labels)

\* C30: a message pipeline run whose fetch found no message at the provider
\* ends without raising, with processed=false, and is an item the incremental
\* loop counts as skipped, not failed.
C30_NotFoundIsSkipped ==
    (node = "END" /\ stages.fetch = "not_found") =>
        /\ ~state.processed
        /\ ~state.raised
        /\ item_outcome(state) = "skipped"

\* The writes of the stored cursor (OAuthToken.historyId) the job committed.
CursorWrites == SelectSeq(writes, LAMBDA w : w.kind = "cursor")

\* C28: a BACKFILL or INCREMENTAL job that has ended with its row FAILED has
\* not overwritten the stored cursor.
C28_CursorOnlyOnCompleted ==
    (/\ pc = "done"
     /\ jobType \in {"BACKFILL", "INCREMENTAL"}
     /\ HasJobId
     /\ job.status = "FAILED") =>
        Len(CursorWrites) = 0

\* The locals of the function whose message loop the job ran.
LoopLocals == IF jobType = "BACKFILL" \/ fallback.why # "" THEN bf ELSE loc

\* The external CANCELLED write fell between two stored messages of the loop.
CancelledMidLoop ==
    \E k \in 1..Len(writes) :
        /\ writes[k] = W("external", "status", "CANCELLED")
        /\ \E a \in 1..(k - 1) : writes[a].kind = "message"
        /\ \E b \in (k + 1)..Len(writes) : writes[b].kind = "message"

\* C29: a BACKFILL or INCREMENTAL job with candidates whose row an external
\* actor set CANCELLED while it ran, and that ended without an exception, has
\* passed every candidate id to the message pipeline, has run the thread pass
\* over every thread it collected, and has written COMPLETED (unless the
\* completion writes themselves failed).
C29_CancelNotPolled ==
    (/\ pc = "done"
     /\ jobType \in {"BACKFILL", "INCREMENTAL"}
     /\ cancelled
     /\ exc = ""
     /\ LoopIds # <<>>) =>
        /\ invoked = LoopIds
        /\ \A t \in LoopLocals.threads_to_process :
               \E i \in 1..Len(threadRuns) : threadRuns[i] = t
        /\ "complete_db" \notin faults => job.status = "COMPLETED"

C29_Witness ==
    /\ pc = "done"
    /\ jobType \in {"BACKFILL", "INCREMENTAL"}
    /\ cancelled
    /\ exc = ""
    /\ CancelledMidLoop
    /\ Len(LoopIds) = MaxMsgs
    /\ invoked = LoopIds
    /\ threadRuns # <<>>
    /\ job.status = "COMPLETED"

\* The taxonomy in the stated priority order, and the markers of each type.
StatedOrder ==
    <<"rate_limit", "invalid_api_key", "quota_exceeded", "provider_outage",
      "network_error", "invalid_request", "unknown">>

MarkersOf(error_type) ==
    CASE error_type = "rate_limit" -> RateLimitMarkers
      [] error_type = "invalid_api_key" -> InvalidApiKeyMarkers
      [] error_type = "quota_exceeded" -> QuotaMarkers
      [] error_type = "provider_outage" -> OutageMarkers
      [] error_type = "network_error" -> NetworkMarkers
      [] error_type = "invalid_request" -> InvalidRequestMarkers
      [] OTHER -> {}

\* The first type of the stated order whose markers the text carries.
FirstStated(text) ==
    LET hits == {i \in 1..Len(StatedOrder) :
                    \/ StatedOrder[i] = "unknown"
                    \/ text \cap MarkersOf(StatedOrder[i]) # {}}
    IN StatedOrder[CHOOSE i \in hits : \A j \in hits : i <= j]

\* The retryability flag and the wait stated for each type.
StatedRetryable(error_type) ==
    error_type \in {"rate_limit", "provider_outage", "network_error", "unknown"}

StatedWait(error_type, error) ==
    CASE error_type = "rate_limit" ->
           <<IF retry_after_of(error) # 0 THEN retry_after_of(error)
             ELSE RateLimitDefaultWait>>
      [] error_type = "provider_outage" -> <<OutageWait>>
      [] error_type = "network_error" -> <<NetworkWait>>
      [] error_type = "unknown" -> <<UnknownWait>>
      [] OTHER -> <<>>

\* C27: the classified error has the first type, in the order RATE_LIMIT,
\* INVALID_API_KEY, QUOTA_EXCEEDED, PROVIDER_OUTAGE, NETWORK_ERROR,
\* INVALID_REQUEST, UNKNOWN, whose markers the failure text carries (so a text
\* with a 5xx marker and a network keyword is PROVIDER_OUTAGE, retryable, 300s),
\* with the retryability flag and the wait stated for that type.
C27_ClassifierOrder ==
    llmErr.result # <<>> =>
        LET e == llmErr.result[1]
        IN /\ e.error_type = FirstStated(llmErr.error.text)
           /\ should_retry(e) = StatedRetryable(e.error_type)
           /\ e.retry_after = StatedWait(e.error_type, llmErr.error)

\* A thread pipeline run over stored messages has left the graph.
ThreadRunEnded == tnode \in {"END", "raised"} /\ Len(tstate.messages) > 0

\* C31: a thread pipeline run for a user without model credentials makes no
\* model call, does not raise, and ends with processed=true and the Thread
\* row upserted without a summary.
C31_NoCredentialsThreadPersists ==
    (ThreadRunEnded /\ tstate.llm_api_key_enc = "") =>
        /\ calls = <<>>
        /\ tnode = "END"
        /\ ~tstate.raised
        /\ tstate.processed
        /\ Len(tstate.summary) = 0
        /\ Len(threadRow) = 1

\* C32: a BACKFILL job in which nothing failed but the processing of a
\* conversation of the thread pass ends without an exception, with every
\* collected conversation passed to process_single_thread, the cursor stored
\* and, with a jobId, the job row COMPLETED.
C32_BackfillThreadFailureIsolated ==
    (/\ pc = "done"
     /\ jobType = "BACKFILL"
     /\ faults = {"thread"}) =>
        /\ exc = ""
        /\ \A t \in bf.threads_to_process :
               \E i \in 1..Len(threadRuns) : threadRuns[i] = t
        /\ Len(CursorWrites) = 1
        /\ HasJobId => job.status = "COMPLETED"

\* The conversations of the messages that ended processed=true in this job
\* (the Message table is empty when a BACKFILL or INCREMENTAL job starts, and
\* a message is stored exactly when its run ends processed=true).
ProcessedThreads == {ThreadOf(m) : m \in messages}

\* C33: in a BACKFILL or INCREMENTAL job, process_single_thread is called only
\* once every candidate id has been passed to the message pipeline, at most
\* once per conversation, and only for conversations of messages that ended
\* processed=true; a job that ended without an exception has called it for
\* each of them.
C33_ThreadPassAfterMessages ==
    jobType \in {"BACKFILL", "INCREMENTAL"} =>
        /\ threadRuns # <<>> => invoked = LoopIds
        /\ \A i, j \in 1..Len(threadRuns) : threadRuns[i] = threadRuns[j] => i = j
        /\ Range(threadRuns) \subseteq ProcessedThreads
        /\ (pc = "done" /\ exc = "") => ProcessedThreads \subseteq Range(threadRuns)

C33_Witness ==
    /\ pc = "done"
    /\ exc = ""
    /\ jobType \in {"BACKFILL", "INCREMENTAL"}
    /\ Len(invoked) = MaxMsgs
    /\ messages = {1, 3}
    /\ threadRuns = <<"t1">>

\* C34: when handle_job has returned for a job of any type whose metadata
\* carries a jobId, and neither the FAILED write of the except clause nor the
\* completion writes of the incremental job failed, the job row is COMPLETED
\* or FAILED.
C34_TerminalOnReturn ==
    (/\ pc = "done"
     /\ HasJobId
     /\ "handler_db" \notin faults
     /\ "complete_db" \notin faults) =>
        job.status \in {"COMPLETED", "FAILED"}

C34_Witness ==
    /\ pc = "done"
    /\ HasJobId
    /\ jobType = "INCREMENTAL"
    /\ fallback.why = ""
    /\ exc = "Failed to fetch history"
    /\ job.status = "FAILED"

\* The fetch or the parse stage of the run has failed.
FetchOrParseFailed == stages.fetch \in {"not_found", "error"} \/ stages.parse = "error"

\* C35: in a message pipeline run whose fetch or parse stage failed, each of
\* the scan, classify and extract stages leaves the context as it was and
\* makes no model call, and the persist stage keeps the error of the failing
\* stage, ends the run with processed=false without raising and leaves the
\* Message table as it was.
C35_FailedItemFrame ==
    [][FetchOrParseFailed =>
         /\ node \in {"detect_sensitive", "classify_message", "extract_entities"} =>
               /\ state' = state
               /\ calls' = calls
         /\ node = "persist_message" =>
               /\ state.error # ""
               /\ state'.error = state.error
               /\ ~state'.processed
               /\ ~state'.stored
               /\ node' = "END"
               /\ calls' = calls
               /\ messages' = messages
               /\ writes' = writes
               /\ rows' = rows]_vars

C35_Witness ==
    /\ node = "END"
    /\ stages.fetch = "ok"
    /\ stages.parse = "error"
    /\ mail.body # "none"
    /\ state.llm_api_key_enc # ""
    /\ state.error = "Failed to parse message"
    /\ calls = <<>>
    /\ messages = {}

\* The ids some run up to event d of the log had among its candidates.
CandidatesUpTo(d) ==
    UNION {syncLog[i].ids : i \in {i \in 1..d : syncLog[i].op \in {"list", "diff"}}}

\* C36: when an INCREMENTAL job has diffed from the stored cursor, every
\* message the provider held at that moment is among the candidate ids of
\* that job or of an earlier run: none was added between a backfill's listing
\* and its cursor write and then missed.
C36_NoChangeLost ==
    \A d \in 1..Len(syncLog) :
        syncLog[d].op = "diff" => 1..syncLog[d].to \subseteq CandidatesUpTo(d)

\* C37: every cursor write stores a change-log position at least as new as
\* the one it overwrites.
C37_CursorMonotonic ==
    \A i \in 1..Len(syncLog) :
        syncLog[i].op = "cursor" => syncLog[i].to >= syncLog[i].from

C39_CountersPartition ==
    (jobType = "INCREMENTAL" /\ fallback.why = "" /\ pc \in {"inc_loop", "inc_threads"}) =>
        loc.processed + loc.failed + loc.skipped = Len(invoked)

\* C40: the sensitive flags stored with a message are the union of the
\* flags the scan found and the flags of the classification, each present
\* and none more than once.
C40_SensitiveFlagsUnion ==
    (node = "END" /\ state.stored) =>
        LET flags == stages.sensitive_flags
        IN /\ Range(flags) = Range(state.sensitive_flags)
                                 \cup Range(state.classification[1].sensitive_flags)
           /\ \A i, j \in 1..Len(flags) : flags[i] = flags[j] => i = j

====
